---------------------------- MODULE Spec2Model ----------------------------
(***************************************************************************)
(* D3D11Renderer (src/src/D3D11Renderer.cpp): the three-thread pipeline    *)
(* demux -> {video packets, audio packets} -> {video decode, audio decode} *)
(* -> {frame queue, audio queue} -> {render tick, audio tick}, with the    *)
(* control operations play/pause/stop/seek/setVolume/setLoop.              *)
(*                                                                         *)
(* Times and timestamps are integers in milliseconds (the source uses      *)
(* double seconds).  A section of code run under one QMutex is one atomic  *)
(* step; a timed condition wait releases the mutex, so every evaluation of *)
(* a wait loop's condition is a step of its own.                           *)
(***************************************************************************)
EXTENDS Integers, Sequences, FiniteSets, TLC

(***************************************************************************)
(* Bounds of the model.                                                    *)
(***************************************************************************)
\* packets in the container
StreamLen == 4
\* capacity of the video packet queue (MAX_VIDEO_PACKET_QUEUE)
MaxVideoPackets == 2
\* capacity of the audio packet queue (MAX_AUDIO_PACKET_QUEUE)
MaxAudioPackets == 2
\* capacity of the audio queue (the literal 100 of audioDecodeThread, scaled)
MaxAudioQueue == 2
\* events of one run: operations the callers invoke, rewinds of the file
\* at its end, failures of a texture creation
MaxEvents == 3
\* consecutive fast renders the pipeline model follows
MaxFastTicks == 2

(***************************************************************************)
(* Program constants.                                                      *)
(***************************************************************************)
MAX_FRAME_QUEUE == 3
MIN_SYNC_THRESHOLD == 10
MAX_SYNC_THRESHOLD == 100
NOSYNC_THRESHOLD == 10000
FRAMEDUP_THRESHOLD == 100
MIN_DELAY == 1
MAX_DELAY == 500
DefaultDelay == 33
FastRenderLimit == 10
MaxDrop == 5
SdlMaxQueued == 35280
SinkBufferSize == 35280
SinkMinFree == 1024
\* processVideo: a frame more than 100 ms behind the target is stale, one
\* more than 50 ms ahead of it is not due
FfStaleMs == 100
FfEarlyMs == 50

\* the null packet the demuxer enqueues as a flush signal
FLUSH == -1
\* no packet in the demuxer's hand
NoPkt == -2
\* no frame / no audio buffer in a thread's hand
NoFrame == [pts |-> -1, isBGRA |-> FALSE]
NoAudio == [pts |-> -1, size |-> 0, first |-> 0, volumeAdjusted |-> FALSE,
            scaled |-> 0]

Min(a, b) == IF a < b THEN a ELSE b
Max(a, b) == IF a > b THEN a ELSE b
Abs(a) == IF a < 0 THEN -a ELSE a
\* qBound(lo, v, hi)
\* the clamp without its lower bound (variant of qBound)
qBoundUpper(lo, v, hi) == Min(hi, v)

qBound(lo, v, hi) == Max(lo, Min(hi, v))


(***************************************************************************)
(* The container: StreamLen packets, read in order.  A file holds a video  *)
(* stream, an audio stream or both; packet i carries the timestamp         *)
(* i * PktMs and every packet is a point av_seek_frame can land on.        *)
(***************************************************************************)
\* milliseconds between two packets of the container
PktMs == 20
\* bytes of one decoded audio buffer (40 ms of 44.1 kHz stereo S16)
AudioBufBytes == 7056
\* a position at most this far from the start counts as near zero
NearZero == 20
\* the capacities of the DecodeThread's queues the model follows
FfMaxVideoQueue == 2
FfMaxAudioQueue == 2
\* the value QDateTime::currentMSecsSinceEpoch() returns: the model keeps
\* the wall clock fixed and moves the stored due time instead (TimePasses)
Epoch == 1000

FileKinds == {"av", "a", "v"}
Duration == StreamLen * PktMs
PtsOf(i) == i * PktMs
IsVideo(kind, i) == kind = "v" \/ (kind = "av" /\ i % 3 # 1)
IsAudio(kind, i) == kind = "a" \/ (kind = "av" /\ i % 3 = 1)
\* av_seek_frame(ctx, -1, target, AVSEEK_FLAG_BACKWARD): the last packet
\* whose timestamp is not after the target
SeekPos(target) == Min(StreamLen - 1, Max(0, target) \div PktMs)
\* played bytes to milliseconds: 176400 bytes per second
PlayedMs(bytes) == (bytes * 1000) \div 176400

VARIABLES
    \* the opened file
    m_formatCtx, m_hwDeviceCtx, fileKind, avPos,
    \* playback state
    m_playing, m_paused, m_loop, m_volume, m_currentPts,
    m_running, m_seeking, m_seekTarget,
    \* clock state
    m_audioClockValid, m_videoClockValid, m_audioStartPts, m_videoStartPts,
    m_avSyncOffset, m_audioClock, m_audioWrittenBytes,
    m_frameTimer, m_lastFramePts, m_lastDelay, m_consecutiveFastRender,
    \* queues
    m_videoPacketQueue, m_audioPacketQueue, m_frameQueue, m_audioQueue,
    \* the three worker threads and the control (GUI) thread
    demuxPc, demuxPkt, vdecPc, vdecItem, adecPc, adecItem,
    ctlPc, ctlFrame, m_d3dMutex,
    \* the audio device
    m_sdlAudioStream, m_audioDevice, sdlQueued,
    \* what the caller has been told
    eofEmitted, seekFloor, wrapPending, lastDropped,
    \* the number of events so far (see MaxEvents)
    events,
    \* the signals the caller has received: the argument of the last
    \* positionChanged, whether errorOccurred / fileLoaded was emitted since
    \* the last call of openFile began; the remembered file and decode mode
    positionChanged, errorOccurred, fileLoaded, m_currentFile, m_decodeMode,
    \* whether av_read_frame returned an error other than AVERROR_EOF to the
    \* demux thread of this session
    readFailed,
    \* whether the last call of openFile called initHardwareDecoder
    hwInitCalled,
    \* the argument of the last call of seek(), per player
    seekArg,
    \* OpenGLRenderer: the members seek() assigns, and its signal
    gl_duration, gl_seekTarget, gl_seeking, gl_currentPts, gl_audioClock,
    gl_positionChanged,
    \* OpenGLRenderer: the file, the decode mode, the playback state and
    \* the signals of the last call of openFile
    gl_formatCtx, gl_hwDeviceCtx, gl_currentFile, gl_decodeMode, gl_playing,
    gl_running, gl_errorOccurred, gl_fileLoaded, gl_hwInitCalled,
    \* OpenGLRenderer: the decode thread (whether the QThread object
    \* exists, where the thread is: "off", "top", "read", "vput", "aput",
    \* "done"; the packet it holds, the position in the container), the two
    \* queues, the flags of playback, the audio device, the byte ranges the
    \* device took in the last audio tick, and whether endOfFile was emitted
    gl_decodeThread, glPc, glItem, gl_pos, gl_frameQueue, gl_audioQueue,
    gl_loop, gl_paused, gl_audioDevice, gl_deviceTook, gl_endOfFile,
    \* FFmpegPlayer and its DecodeThread: the members seek() assigns, and
    \* its signal
    ff_duration, ff_currentPosition, ff_audioClock, ff_seekTarget, ff_seeking,
    ff_positionChanged, ff_startTime,
    \* FFmpegPlayer: the state, the remembered file, the DecodeThread's
    \* container and run flag, and the signals of the last loadFile or play
    ff_state, ff_currentFile, dt_formatCtx, dt_running, ff_errorOccurred,
    ff_fileLoaded,
    \* DecodeThread::run: where the thread is ("off", "run", "eof": ended
    \* with decodingFinished pending, "done", "failed": ended by a read
    \* error) and the position in the container; FFmpegPlayer's loop flag
    \* and whether it emitted endOfFile
    dtPc, dt_pos, ff_loop, ff_endOfFile,
    \* DecodeThread's queues of decoded frames and audio buffers, the
    \* player's audio device, the byte ranges the device was handed in the
    \* last audio tick and the pts of the frame the last video tick emitted
    \* with frameReady (NoShow: none)
    dt_videoQueue, dt_audioQueue, ff_audioDevice, ff_deviceTook, ff_frameReady

fileVars == <<m_formatCtx, m_hwDeviceCtx, fileKind>>
stateVars == <<m_playing, m_paused, m_loop, m_volume, m_currentPts,
               m_running, m_seeking, m_seekTarget>>
avVars == <<m_audioClockValid, m_videoClockValid, m_audioStartPts,
            m_videoStartPts, m_avSyncOffset>>
audioClockVars == <<m_audioClock, m_audioWrittenBytes>>
timerVars == <<m_frameTimer, m_lastFramePts, m_lastDelay,
               m_consecutiveFastRender, lastDropped>>
packetQueues == <<m_videoPacketQueue, m_audioPacketQueue>>
demuxVars == <<demuxPc, demuxPkt>>
vdecVars == <<vdecPc, vdecItem>>
adecVars == <<adecPc, adecItem>>
ctlVars == <<ctlPc, ctlFrame, events>>
deviceVars == <<m_sdlAudioStream, m_audioDevice, sdlQueued>>
toldVars == <<eofEmitted, seekFloor, wrapPending, readFailed>>
signalVars == <<positionChanged, errorOccurred, fileLoaded, m_currentFile,
                m_decodeMode, hwInitCalled>>
notifyVars == <<signalVars, seekArg>>
glSeekVars == <<gl_seekTarget, gl_seeking, gl_currentPts, gl_audioClock,
                gl_positionChanged>>
glFileVars == <<gl_duration, gl_formatCtx, gl_hwDeviceCtx, gl_currentFile,
                gl_errorOccurred, gl_fileLoaded, gl_hwInitCalled>>
glThreadVars == <<gl_decodeThread, glPc, glItem, gl_pos>>
glQueueVars == <<gl_frameQueue, gl_audioQueue>>
glPlayVars == <<gl_loop, gl_paused, gl_audioDevice, gl_deviceTook,
                gl_endOfFile>>
glVars == <<glSeekVars, glFileVars, gl_decodeMode, gl_playing, gl_running,
            glThreadVars, glQueueVars, glPlayVars>>
ffSeekVars == <<ff_currentPosition, ff_audioClock, ff_seekTarget, ff_seeking,
                ff_positionChanged, ff_startTime>>
ffFileVars == <<ff_duration, ff_currentFile, dt_formatCtx, ff_errorOccurred,
                ff_fileLoaded>>
dtVars == <<dtPc, dt_pos, ff_loop, ff_endOfFile>>
ffQueueVars == <<dt_videoQueue, dt_audioQueue, ff_audioDevice, ff_deviceTook,
                 ff_frameReady>>
ffVars == <<ffSeekVars, ffFileVars, ff_state, dt_running, dtVars,
            ffQueueVars>>
peerVars == <<glVars, ffVars>>

\* the variables of the D3D11Renderer
d3dVars == <<fileVars, avPos, stateVars, avVars, audioClockVars, timerVars,
             packetQueues, m_frameQueue, m_audioQueue, demuxVars, vdecVars,
             adecVars, ctlVars, m_d3dMutex, deviceVars, toldVars, signalVars>>
vars == <<d3dVars, seekArg, peerVars>>

m_duration == IF m_formatCtx THEN Duration ELSE 0
m_videoCodecCtx == m_formatCtx /\ fileKind \in {"av", "v"}
m_audioCodecCtx == m_formatCtx /\ fileKind \in {"av", "a"}

(***************************************************************************)
(* The state after construction: nothing open, nothing playing.            *)
(***************************************************************************)
ResetClock ==
    /\ m_audioClockValid' = FALSE
    /\ m_videoClockValid' = FALSE
    /\ m_audioStartPts' = 0
    /\ m_videoStartPts' = 0
    /\ m_avSyncOffset' = 0
    /\ m_audioClock' = 0
    /\ m_audioWrittenBytes' = 0
    /\ m_frameTimer' = 0
    /\ m_lastFramePts' = 0
    /\ m_lastDelay' = DefaultDelay
    /\ m_consecutiveFastRender' = 0
    /\ lastDropped' = 0

\* the three players that implement seek()
Players == {"D3D11Renderer", "OpenGLRenderer", "FFmpegPlayer"}

\* no signal was emitted yet
NothingNotified ==
    /\ positionChanged = 0 /\ errorOccurred = FALSE /\ fileLoaded = FALSE
    /\ hwInitCalled = FALSE
    /\ seekArg = [player \in Players |-> 0]

\* an OpenGLRenderer after construction
GlConstructed ==
    /\ gl_duration = 0 /\ gl_seekTarget = 0 /\ gl_seeking = FALSE
    /\ gl_currentPts = 0 /\ gl_audioClock = 0 /\ gl_positionChanged = 0
    /\ gl_formatCtx = FALSE /\ gl_hwDeviceCtx = FALSE /\ gl_currentFile = ""
    /\ gl_decodeMode = "Auto" /\ gl_playing = FALSE /\ gl_running = FALSE
    /\ gl_errorOccurred = FALSE /\ gl_fileLoaded = FALSE
    /\ gl_hwInitCalled = FALSE
    /\ gl_decodeThread = FALSE /\ glPc = "off" /\ glItem = NoPkt
    /\ gl_pos = 0
    /\ gl_frameQueue = <<>> /\ gl_audioQueue = <<>>
    /\ gl_loop = TRUE /\ gl_paused = FALSE /\ gl_audioDevice = FALSE
    /\ gl_deviceTook = <<>> /\ gl_endOfFile = FALSE

\* no frame was emitted with frameReady
NoShow == 0 - 1

\* an FFmpegPlayer in StoppedState that remembers the file and has the
\* duration given: after construction ("" and 0), or stopped after a load
FfStopped(file, duration) ==
    /\ ff_duration = duration /\ ff_currentPosition = 0 /\ ff_audioClock = 0
    /\ ff_seekTarget = 0 /\ ff_seeking = FALSE /\ ff_positionChanged = 0
    /\ ff_startTime = 0
    /\ ff_state = "StoppedState" /\ ff_currentFile = file
    /\ dt_formatCtx = (file # "") /\ dt_running = FALSE
    /\ ff_errorOccurred = FALSE /\ ff_fileLoaded = (file # "")
    /\ dtPc = "off" /\ dt_pos = 0 /\ ff_endOfFile = FALSE
    /\ dt_videoQueue = <<>> /\ dt_audioQueue = <<>>
    /\ ff_audioDevice = FALSE /\ ff_deviceTook = <<>>
    /\ ff_frameReady = NoShow

\* an OpenGLRenderer and an FFmpegPlayer after construction
PeersConstructed == GlConstructed /\ FfStopped("", 0) /\ ff_loop = TRUE

\* a D3D11Renderer after construction
D3dConstructed ==
    /\ m_formatCtx = FALSE /\ m_hwDeviceCtx = FALSE /\ fileKind = "av"
    /\ avPos = 0
    /\ m_playing = FALSE /\ m_paused = FALSE /\ m_loop = TRUE
    /\ m_volume = 100 /\ m_currentPts = 0
    /\ m_running = FALSE /\ m_seeking = FALSE /\ m_seekTarget = 0
    /\ m_audioClockValid = FALSE /\ m_videoClockValid = FALSE
    /\ m_audioStartPts = 0 /\ m_videoStartPts = 0 /\ m_avSyncOffset = 0
    /\ m_audioClock = 0 /\ m_audioWrittenBytes = 0
    /\ m_frameTimer = 0 /\ m_lastFramePts = 0 /\ m_lastDelay = DefaultDelay
    /\ m_consecutiveFastRender = 0 /\ lastDropped = 0
    /\ m_videoPacketQueue = <<>> /\ m_audioPacketQueue = <<>>
    /\ m_frameQueue = <<>> /\ m_audioQueue = <<>>
    /\ demuxPc = "off" /\ demuxPkt = NoPkt
    /\ vdecPc = "off" /\ vdecItem = NoFrame
    /\ adecPc = "off" /\ adecItem = NoAudio
    /\ ctlPc = "idle" /\ ctlFrame = NoFrame /\ events = 0
    /\ m_d3dMutex = "free"
    /\ m_sdlAudioStream = FALSE /\ m_audioDevice = FALSE /\ sdlQueued = 0
    /\ eofEmitted = FALSE /\ seekFloor = 0 /\ wrapPending = FALSE
    /\ readFailed = FALSE
    /\ NothingNotified /\ m_currentFile = "" /\ m_decodeMode = "Auto"

Init == D3dConstructed /\ PeersConstructed


(***************************************************************************)
(* The demux thread, D3D11Renderer::demuxThread.                           *)
(*   "top"   the test of while (m_running) and of m_seeking                *)
(*   "seek"  the container seek and the queue flush are done, m_seeking    *)
(*           is not cleared yet                                            *)
(*   "read"  about to call av_read_frame                                   *)
(*   "vput" / "aput"  holding a packet for the video / audio packet queue, *)
(*           in the wait loop while the queue is full                      *)
(*   "done"  the loop is left                                              *)
(***************************************************************************)
DemuxTop ==
    /\ demuxPc = "top"
    /\ IF ~m_running
       THEN /\ demuxPc' = "done"
            /\ UNCHANGED <<avPos, packetQueues>>
       ELSE IF m_seeking
       THEN /\ avPos' = SeekPos(m_seekTarget)
            /\ m_videoPacketQueue' = <<>>
            /\ m_audioPacketQueue' = <<>>
            /\ demuxPc' = "seek"
       ELSE /\ demuxPc' = "read"
            /\ UNCHANGED <<avPos, packetQueues>>
    /\ UNCHANGED <<notifyVars, peerVars, fileVars, stateVars, avVars, audioClockVars, timerVars,
                   m_frameQueue, m_audioQueue, demuxPkt, vdecVars, adecVars,
                   ctlVars, m_d3dMutex, deviceVars, toldVars>>

DemuxSeekDone ==
    /\ demuxPc = "seek"
    /\ m_seeking' = FALSE
    /\ demuxPc' = "read"
    /\ UNCHANGED <<notifyVars, peerVars, fileVars, avPos, m_playing, m_paused, m_loop, m_volume,
                   m_currentPts, m_running, m_seekTarget, avVars,
                   audioClockVars, timerVars, packetQueues, m_frameQueue,
                   m_audioQueue, demuxPkt, vdecVars, adecVars, ctlVars,
                   m_d3dMutex, deviceVars, toldVars>>

\* av_read_frame returns a packet
DemuxReadPacket ==
    /\ demuxPc = "read"
    /\ avPos < StreamLen
    /\ avPos' = avPos + 1
    /\ demuxPkt' = avPos
    /\ demuxPc' = IF IsVideo(fileKind, avPos) THEN "vput" ELSE "aput"
    /\ UNCHANGED <<notifyVars, peerVars, fileVars, stateVars, avVars, audioClockVars, timerVars,
                   packetQueues, m_frameQueue, m_audioQueue, vdecVars,
                   adecVars, ctlVars, m_d3dMutex, deviceVars, toldVars>>

\* the end of file with m_loop set, without the rewind (variant of
\* DemuxLoopWrap)
DemuxLoopWrapNoRewind ==
    /\ demuxPc = "read"
    /\ avPos = StreamLen
    /\ m_loop
    /\ events < MaxEvents
    /\ events' = events + 1
    /\ m_videoPacketQueue' = Append(m_videoPacketQueue, FLUSH)
    /\ m_audioPacketQueue' = Append(m_audioPacketQueue, FLUSH)
    /\ demuxPc' = "top"
    /\ seekFloor' = 0
    /\ wrapPending' = TRUE
    /\ UNCHANGED <<readFailed, notifyVars, peerVars, fileVars, avPos, stateVars, avVars, audioClockVars,
                   timerVars, m_frameQueue, m_audioQueue, demuxPkt, vdecVars,
                   adecVars, ctlPc, ctlFrame, m_d3dMutex, deviceVars,
                   eofEmitted>>

\* av_read_frame returns AVERROR_EOF and m_loop is set: rewind, and put a
\* null packet into each packet queue
DemuxLoopWrap ==
    /\ demuxPc = "read"
    /\ avPos = StreamLen
    /\ m_loop
    /\ events < MaxEvents
    /\ events' = events + 1
    /\ avPos' = 0
    /\ m_videoPacketQueue' = Append(m_videoPacketQueue, FLUSH)
    /\ m_audioPacketQueue' = Append(m_audioPacketQueue, FLUSH)
    /\ demuxPc' = "top"
    /\ seekFloor' = 0
    /\ wrapPending' = TRUE
    /\ UNCHANGED <<readFailed, notifyVars, peerVars, fileVars, stateVars, avVars, audioClockVars, timerVars,
                   m_frameQueue, m_audioQueue, demuxPkt, vdecVars, adecVars,
                   ctlPc, ctlFrame, m_d3dMutex, deviceVars, eofEmitted>>

\* av_read_frame returns AVERROR_EOF and m_loop is not set
DemuxEndOfFile ==
    /\ demuxPc = "read"
    /\ avPos = StreamLen
    /\ ~m_loop
    /\ eofEmitted' = TRUE
    /\ demuxPc' = "done"
    /\ UNCHANGED <<readFailed, notifyVars, peerVars, fileVars, avPos, stateVars, avVars, audioClockVars,
                   timerVars, packetQueues, m_frameQueue, m_audioQueue,
                   demuxPkt, vdecVars, adecVars, ctlVars, m_d3dMutex,
                   deviceVars, seekFloor, wrapPending>>

\* the read error after which the loop goes on (variant of DemuxReadError)
DemuxReadErrorRetries ==
    /\ demuxPc = "read"
    /\ demuxPc' = "top"
    /\ readFailed' = TRUE
    /\ UNCHANGED <<notifyVars, peerVars, fileVars, avPos, stateVars, avVars,
                   audioClockVars, timerVars, packetQueues, m_frameQueue,
                   m_audioQueue, demuxPkt, vdecVars, adecVars, ctlVars,
                   m_d3dMutex, deviceVars, eofEmitted, seekFloor,
                   wrapPending>>

\* av_read_frame returns another error
DemuxReadError ==
    /\ demuxPc = "read"
    /\ demuxPc' = "done"
    /\ readFailed' = TRUE
    /\ UNCHANGED <<notifyVars, peerVars, fileVars, avPos, stateVars, avVars, audioClockVars,
                   timerVars, packetQueues, m_frameQueue, m_audioQueue,
                   demuxPkt, vdecVars, adecVars, ctlVars, m_d3dMutex,
                   deviceVars, eofEmitted, seekFloor,
                   wrapPending>>

\* the demuxer's wait loop on the video packet queue
VideoPacketWait ==
    Len(m_videoPacketQueue) >= MaxVideoPackets /\ m_running /\ ~m_seeking
AudioPacketWait ==
    Len(m_audioPacketQueue) >= MaxAudioPackets /\ m_running /\ ~m_seeking

\* a demuxer that enqueues the packet whatever ended its wait (variant of
\* DemuxPutVideo)
DemuxPutVideoLate ==
    /\ demuxPc = "vput"
    /\ ~VideoPacketWait
    /\ m_videoPacketQueue' = Append(m_videoPacketQueue, demuxPkt)
    /\ demuxPc' = "top"
    /\ demuxPkt' = NoPkt
    /\ UNCHANGED <<notifyVars, peerVars, fileVars, avPos, stateVars, avVars, audioClockVars,
                   timerVars, m_audioPacketQueue, m_frameQueue, m_audioQueue,
                   vdecVars, adecVars, ctlVars, m_d3dMutex, deviceVars,
                   toldVars>>

DemuxPutVideo ==
    /\ demuxPc = "vput"
    /\ ~VideoPacketWait
    /\ m_videoPacketQueue' =
          IF m_running /\ ~m_seeking
          THEN Append(m_videoPacketQueue, demuxPkt)
          ELSE m_videoPacketQueue
    /\ demuxPc' = "top"
    /\ demuxPkt' = NoPkt
    /\ UNCHANGED <<notifyVars, peerVars, fileVars, avPos, stateVars, avVars, audioClockVars,
                   timerVars, m_audioPacketQueue, m_frameQueue, m_audioQueue,
                   vdecVars, adecVars, ctlVars, m_d3dMutex, deviceVars,
                   toldVars>>

DemuxPutAudio ==
    /\ demuxPc = "aput"
    /\ ~AudioPacketWait
    /\ m_audioPacketQueue' =
          IF m_running /\ ~m_seeking
          THEN Append(m_audioPacketQueue, demuxPkt)
          ELSE m_audioPacketQueue
    /\ demuxPc' = "top"
    /\ demuxPkt' = NoPkt
    /\ UNCHANGED <<notifyVars, peerVars, fileVars, avPos, stateVars, avVars, audioClockVars,
                   timerVars, m_videoPacketQueue, m_frameQueue, m_audioQueue,
                   vdecVars, adecVars, ctlVars, m_d3dMutex, deviceVars,
                   toldVars>>


(***************************************************************************)
(* The video decode thread, D3D11Renderer::videoDecodeThread.              *)
(*   "take"   waiting for / taking a packet                                *)
(*   "flush"  a null packet was taken                                      *)
(*   "copy"   a frame is decoded, m_d3dMutex is wanted                     *)
(*   "gpu"    inside the section under m_d3dMutex                          *)
(*   "fput"   holding a frame, in the wait loop on the frame queue         *)
(***************************************************************************)
VdecExit ==
    /\ vdecPc \in {"take", "copy"}
    /\ ~m_running
    /\ vdecPc' = IF vdecPc = "take" THEN "done" ELSE "take"
    /\ vdecItem' = NoFrame
    /\ UNCHANGED <<notifyVars, peerVars, fileVars, avPos, stateVars, avVars, audioClockVars,
                   timerVars, packetQueues, m_frameQueue, m_audioQueue,
                   demuxVars, adecVars, ctlVars, m_d3dMutex, deviceVars,
                   toldVars>>

VdecTake ==
    /\ vdecPc = "take"
    /\ m_running
    /\ m_videoPacketQueue # <<>>
    /\ m_videoPacketQueue' = Tail(m_videoPacketQueue)
    /\ IF Head(m_videoPacketQueue) = FLUSH
       THEN vdecPc' = "flush" /\ vdecItem' = NoFrame
       ELSE /\ vdecPc' = "copy"
            /\ vdecItem' = [pts |-> PtsOf(Head(m_videoPacketQueue)),
                            isBGRA |-> FALSE]
    /\ UNCHANGED <<notifyVars, peerVars, fileVars, avPos, stateVars, avVars, audioClockVars,
                   timerVars, m_audioPacketQueue, m_frameQueue, m_audioQueue,
                   demuxVars, adecVars, ctlVars, m_d3dMutex, deviceVars,
                   toldVars>>

\* a flush that resets the clock and keeps the queued frames (variant of
\* VdecFlush)
VdecFlushKeepsFrames ==
    /\ vdecPc = "flush"
    /\ m_videoClockValid' = FALSE
    /\ m_videoStartPts' = 0
    /\ vdecPc' = "take"
    /\ UNCHANGED <<notifyVars, peerVars, fileVars, avPos, stateVars, m_audioClockValid,
                   m_audioStartPts, m_avSyncOffset, audioClockVars, timerVars,
                   packetQueues, m_frameQueue, m_audioQueue, demuxVars,
                   vdecItem, adecVars, ctlVars, m_d3dMutex, deviceVars,
                   toldVars>>

VdecFlush ==
    /\ vdecPc = "flush"
    /\ m_frameQueue' = <<>>
    /\ m_videoClockValid' = FALSE
    /\ m_videoStartPts' = 0
    /\ vdecPc' = "take"
    /\ UNCHANGED <<notifyVars, peerVars, fileVars, avPos, stateVars, m_audioClockValid,
                   m_audioStartPts, m_avSyncOffset, audioClockVars, timerVars,
                   packetQueues, m_audioQueue, demuxVars, vdecItem, adecVars,
                   ctlVars, m_d3dMutex, deviceVars, toldVars>>

\* a thread passes QMutexLocker d3dLock(&m_d3dMutex) whatever the mutex
\* holds (variant of D3dMutexFree)
D3dMutexIgnored == TRUE

\* QMutexLocker d3dLock(&m_d3dMutex) can acquire the mutex
D3dMutexFree == m_d3dMutex = "free"

\* QMutexLocker d3dLock(&m_d3dMutex) of the hardware copy and of the
\* software upload
VdecLock ==
    /\ vdecPc = "copy"
    /\ m_running
    /\ D3dMutexFree
    /\ m_d3dMutex' = "vdec"
    /\ vdecPc' = "gpu"
    /\ UNCHANGED <<notifyVars, peerVars, fileVars, avPos, stateVars, avVars, audioClockVars,
                   timerVars, packetQueues, m_frameQueue, m_audioQueue,
                   demuxVars, vdecItem, adecVars, ctlVars, deviceVars,
                   toldVars>>

\* CreateTexture2D (and the copy) done, the locker leaves scope
VdecUnlock ==
    /\ vdecPc = "gpu"
    /\ m_d3dMutex' = "free"
    /\ vdecPc' = "fput"
    /\ vdecItem' = [vdecItem EXCEPT !.isBGRA = ~m_hwDeviceCtx]
    /\ UNCHANGED <<notifyVars, peerVars, fileVars, avPos, stateVars, avVars, audioClockVars,
                   timerVars, packetQueues, m_frameQueue, m_audioQueue,
                   demuxVars, adecVars, ctlVars, deviceVars, toldVars>>

\* CreateTexture2D fails, the locker leaves scope: a frame without a
\* texture is not queued
VdecTextureFails ==
    /\ vdecPc = "gpu"
    /\ events < MaxEvents
    /\ events' = events + 1
    /\ m_d3dMutex' = "free"
    /\ vdecPc' = "take"
    /\ vdecItem' = NoFrame
    /\ UNCHANGED <<notifyVars, peerVars, fileVars, avPos, stateVars, avVars, audioClockVars,
                   timerVars, packetQueues, m_frameQueue, m_audioQueue,
                   demuxVars, adecVars, ctlPc, ctlFrame, deviceVars,
                   toldVars>>

\* the video decoder's wait loop on the frame queue
FrameWait == Len(m_frameQueue) >= MAX_FRAME_QUEUE /\ m_running

\* a decoder that puts the frame in front of the queued ones (variant of
\* VdecPut)
VdecPutFront ==
    /\ vdecPc = "fput"
    /\ ~FrameWait
    /\ m_frameQueue' = IF m_running THEN <<vdecItem>> \o m_frameQueue
                       ELSE m_frameQueue
    /\ vdecPc' = "take"
    /\ vdecItem' = NoFrame
    /\ UNCHANGED <<notifyVars, peerVars, fileVars, avPos, stateVars, avVars, audioClockVars,
                   timerVars, packetQueues, m_audioQueue, demuxVars, adecVars,
                   ctlVars, m_d3dMutex, deviceVars, toldVars>>

VdecPut ==
    /\ vdecPc = "fput"
    /\ ~FrameWait
    /\ m_frameQueue' = IF m_running THEN Append(m_frameQueue, vdecItem)
                       ELSE m_frameQueue
    /\ vdecPc' = "take"
    /\ vdecItem' = NoFrame
    /\ UNCHANGED <<notifyVars, peerVars, fileVars, avPos, stateVars, avVars, audioClockVars,
                   timerVars, packetQueues, m_audioQueue, demuxVars, adecVars,
                   ctlVars, m_d3dMutex, deviceVars, toldVars>>

(***************************************************************************)
(* The audio decode thread, D3D11Renderer::audioDecodeThread.              *)
(***************************************************************************)
AdecExit ==
    /\ adecPc = "take"
    /\ ~m_running
    /\ adecPc' = "done"
    /\ UNCHANGED <<notifyVars, peerVars, fileVars, avPos, stateVars, avVars, audioClockVars,
                   timerVars, packetQueues, m_frameQueue, m_audioQueue,
                   demuxVars, vdecVars, adecItem, ctlVars, m_d3dMutex,
                   deviceVars, toldVars>>

AdecTake ==
    /\ adecPc = "take"
    /\ m_running
    /\ m_audioPacketQueue # <<>>
    /\ m_audioPacketQueue' = Tail(m_audioPacketQueue)
    /\ IF Head(m_audioPacketQueue) = FLUSH
       THEN adecPc' = "flush" /\ adecItem' = NoAudio
       ELSE /\ adecPc' = "aput"
            /\ adecItem' = [pts |-> PtsOf(Head(m_audioPacketQueue)),
                            size |-> AudioBufBytes, first |-> 0,
                            volumeAdjusted |-> FALSE, scaled |-> 0]
    /\ UNCHANGED <<notifyVars, peerVars, fileVars, avPos, stateVars, avVars, audioClockVars,
                   timerVars, m_videoPacketQueue, m_frameQueue, m_audioQueue,
                   demuxVars, vdecVars, ctlVars, m_d3dMutex, deviceVars,
                   toldVars>>

AdecFlush ==
    /\ adecPc = "flush"
    /\ m_audioQueue' = <<>>
    /\ m_audioClockValid' = FALSE
    /\ m_audioStartPts' = 0
    /\ m_audioClock' = 0
    /\ m_audioWrittenBytes' = 0
    /\ adecPc' = "take"
    /\ UNCHANGED <<notifyVars, peerVars, fileVars, avPos, stateVars, m_videoClockValid,
                   m_videoStartPts, m_avSyncOffset, timerVars, packetQueues,
                   m_frameQueue, demuxVars, vdecVars, adecItem, ctlVars,
                   m_d3dMutex, deviceVars, toldVars>>

\* the audio decoder's wait loop on the audio queue
AudioWait == Len(m_audioQueue) >= MaxAudioQueue /\ m_running

AdecPut ==
    /\ adecPc = "aput"
    /\ ~AudioWait
    /\ m_audioQueue' = IF m_running THEN Append(m_audioQueue, adecItem)
                       ELSE m_audioQueue
    /\ adecPc' = "take"
    /\ adecItem' = NoAudio
    /\ UNCHANGED <<notifyVars, peerVars, fileVars, avPos, stateVars, avVars, audioClockVars,
                   timerVars, packetQueues, m_frameQueue, demuxVars, vdecVars,
                   ctlVars, m_d3dMutex, deviceVars, toldVars>>


(***************************************************************************)
(* The control (GUI) thread: the public operations and the two timers.     *)
(* ctlPc is "idle" between two handlers; a handler that blocks (on         *)
(* m_d3dMutex, on the join of the worker threads) keeps the thread.        *)
(***************************************************************************)
\* a caller invokes one more operation
UserOp ==
    /\ ctlPc = "idle"
    /\ events < MaxEvents
    /\ events' = events + 1

WorkersStopped ==
    /\ demuxPc \in {"off", "done"}
    /\ vdecPc \in {"off", "done"}
    /\ adecPc \in {"off", "done"}

\* values the callers pass to seek() and to setVolume()
SeekInputs == {0 - PktMs, 2 * PktMs, Duration + PktMs}
VolumeInputs == {50, 150}

\* play(): starts the audio device and the three threads when stopped,
\* and resets the synchronisation state on a start and on a resume
\* play() that starts the three threads whenever it is called (variant of
\* Play)
PlayAlwaysStarts ==
    /\ UserOp
    /\ IF TRUE
       THEN /\ m_sdlAudioStream' = TRUE
            /\ sdlQueued' = 0
            /\ UNCHANGED m_audioDevice
            /\ m_running' = TRUE
            /\ demuxPc' = IF m_formatCtx THEN "top" ELSE "done"
            /\ vdecPc' = IF m_videoCodecCtx THEN "take" ELSE "off"
            /\ adecPc' = IF m_audioCodecCtx THEN "take" ELSE "off"
       ELSE UNCHANGED <<deviceVars, m_running, demuxPc, vdecPc, adecPc>>
    /\ m_playing' = TRUE
    /\ m_paused' = FALSE
    /\ ResetClock
    /\ UNCHANGED <<notifyVars, peerVars, fileVars, avPos, m_loop, m_volume, m_currentPts, m_seeking,
                   m_seekTarget, packetQueues, m_frameQueue, m_audioQueue,
                   demuxPkt, vdecItem, adecItem, ctlPc, ctlFrame, m_d3dMutex,
                   toldVars>>

Play ==
    /\ UserOp
    /\ ~(m_playing /\ ~m_paused)
    /\ IF ~m_playing
       THEN /\ m_sdlAudioStream' = TRUE
            /\ sdlQueued' = 0
            /\ UNCHANGED m_audioDevice
            /\ m_running' = TRUE
            /\ demuxPc' = IF m_formatCtx THEN "top" ELSE "done"
            /\ vdecPc' = IF m_videoCodecCtx THEN "take" ELSE "off"
            /\ adecPc' = IF m_audioCodecCtx THEN "take" ELSE "off"
       ELSE UNCHANGED <<deviceVars, m_running, demuxPc, vdecPc, adecPc>>
    /\ m_playing' = TRUE
    /\ m_paused' = FALSE
    /\ ResetClock
    /\ UNCHANGED <<notifyVars, peerVars, fileVars, avPos, m_loop, m_volume, m_currentPts, m_seeking,
                   m_seekTarget, packetQueues, m_frameQueue, m_audioQueue,
                   demuxPkt, vdecItem, adecItem, ctlPc, ctlFrame, m_d3dMutex,
                   toldVars>>

Pause ==
    /\ UserOp
    /\ m_playing
    /\ m_paused' = TRUE
    /\ UNCHANGED <<notifyVars, peerVars, fileVars, avPos, m_playing, m_loop, m_volume, m_currentPts,
                   m_running, m_seeking, m_seekTarget, avVars, audioClockVars,
                   timerVars, packetQueues, m_frameQueue, m_audioQueue,
                   demuxVars, vdecVars, adecVars, ctlPc, ctlFrame, m_d3dMutex,
                   deviceVars, toldVars>>

\* stop() up to the join of the worker threads
StopBegin ==
    /\ UserOp
    /\ m_playing' = FALSE
    /\ m_paused' = FALSE
    /\ m_currentPts' = 0
    /\ ResetClock
    /\ m_running' = FALSE
    /\ ctlPc' = "stopping"
    /\ seekFloor' = 0
    /\ wrapPending' = FALSE
    /\ UNCHANGED <<readFailed, notifyVars, peerVars, fileVars, avPos, m_loop, m_volume, m_seeking, m_seekTarget,
                   packetQueues, m_frameQueue, m_audioQueue, demuxVars,
                   vdecVars, adecVars, ctlFrame, m_d3dMutex, deviceVars,
                   eofEmitted>>

\* stop() that leaves the frame queue as it is (variant of StopJoin)
StopJoinKeepsFrames ==
    /\ ctlPc = "stopping"
    /\ WorkersStopped
    /\ demuxPc' = "off" /\ vdecPc' = "off" /\ adecPc' = "off"
    /\ m_sdlAudioStream' = FALSE
    /\ m_audioDevice' = FALSE
    /\ sdlQueued' = 0
    /\ m_audioWrittenBytes' = 0
    /\ m_videoPacketQueue' = <<>>
    /\ m_audioPacketQueue' = <<>>
    /\ m_audioQueue' = <<>>
    /\ seekFloor' = 0
    /\ wrapPending' = FALSE
    /\ eofEmitted' = FALSE
    /\ ctlPc' = "idle"
    /\ positionChanged' = 0
    /\ readFailed' = FALSE
    /\ UNCHANGED <<errorOccurred, fileLoaded, m_currentFile, m_decodeMode,
                   hwInitCalled, seekArg, peerVars, events, fileVars, avPos, stateVars,
                   avVars, m_audioClock, timerVars, demuxPkt, vdecItem,
                   adecItem, ctlFrame, m_d3dMutex, m_frameQueue>>

\* stop() from the join on: the threads are gone, the device is closed,
\* the four queues are cleared and positionChanged(0) is emitted
StopJoin ==
    /\ ctlPc = "stopping"
    /\ WorkersStopped
    /\ demuxPc' = "off" /\ vdecPc' = "off" /\ adecPc' = "off"
    /\ m_sdlAudioStream' = FALSE
    /\ m_audioDevice' = FALSE
    /\ sdlQueued' = 0
    /\ m_audioWrittenBytes' = 0
    /\ m_videoPacketQueue' = <<>>
    /\ m_audioPacketQueue' = <<>>
    /\ m_frameQueue' = <<>>
    /\ m_audioQueue' = <<>>
    /\ seekFloor' = 0
    /\ wrapPending' = FALSE
    /\ eofEmitted' = FALSE
    /\ ctlPc' = "idle"
    /\ positionChanged' = 0
    /\ readFailed' = FALSE
    /\ UNCHANGED <<errorOccurred, fileLoaded, m_currentFile, m_decodeMode,
                   hwInitCalled, seekArg, peerVars, events, fileVars, avPos, stateVars,
                   avVars, m_audioClock, timerVars, demuxPkt, vdecItem,
                   adecItem, ctlFrame, m_d3dMutex>>

\* seek(seconds)
Seek(seconds) ==
    /\ UserOp
    /\ m_seekTarget' = qBound(0, seconds, m_duration)
    /\ m_seeking' = TRUE
    /\ m_currentPts' = qBound(0, seconds, m_duration)
    /\ ResetClock
    /\ sdlQueued' = IF m_sdlAudioStream THEN 0 ELSE sdlQueued
    /\ seekFloor' = PtsOf(SeekPos(qBound(0, seconds, m_duration)))
    /\ positionChanged' = qBound(0, seconds, m_duration)
    /\ seekArg' = [seekArg EXCEPT !["D3D11Renderer"] = seconds]
    /\ UNCHANGED <<readFailed, errorOccurred, fileLoaded, m_currentFile, m_decodeMode,
                   hwInitCalled, peerVars, fileVars, avPos, m_playing, m_paused, m_loop, m_volume,
                   m_running, packetQueues, m_frameQueue, m_audioQueue,
                   demuxVars, vdecVars, adecVars, ctlPc, ctlFrame, m_d3dMutex,
                   m_sdlAudioStream, m_audioDevice, eofEmitted, wrapPending>>

setVolume(volume) ==
    /\ UserOp
    /\ m_volume' = qBound(0, volume, 100)
    /\ UNCHANGED <<notifyVars, peerVars, fileVars, avPos, m_playing, m_paused, m_loop, m_currentPts,
                   m_running, m_seeking, m_seekTarget, avVars, audioClockVars,
                   timerVars, packetQueues, m_frameQueue, m_audioQueue,
                   demuxVars, vdecVars, adecVars, ctlPc, ctlFrame, m_d3dMutex,
                   deviceVars, toldVars>>

setLoop(loop) ==
    /\ UserOp
    /\ m_loop' = loop
    /\ UNCHANGED <<notifyVars, peerVars, fileVars, avPos, m_playing, m_paused, m_volume,
                   m_currentPts, m_running, m_seeking, m_seekTarget, avVars,
                   audioClockVars, timerVars, packetQueues, m_frameQueue,
                   m_audioQueue, demuxVars, vdecVars, adecVars, ctlPc, ctlFrame,
                   m_d3dMutex, deviceVars, toldVars>>

\* setDecodeMode(mode)
setDecodeMode(mode) ==
    /\ UserOp
    /\ m_decodeMode' = mode
    /\ UNCHANGED <<positionChanged, errorOccurred, fileLoaded, m_currentFile,
                   hwInitCalled, seekArg, peerVars, fileVars, avPos,
                   stateVars, avVars, audioClockVars, timerVars, packetQueues,
                   m_frameQueue, m_audioQueue, demuxVars, vdecVars, adecVars,
                   ctlPc, ctlFrame, m_d3dMutex, deviceVars, toldVars>>

\* the variant of CallsHwInit that does not test the decode mode
CallsHwInitAnyMode(mode, kind, fails) ==
    /\ kind # "a"
    /\ fails \notin {"avformat_open_input", "avformat_find_stream_info",
                     "avcodec_find_decoder"}

\* openFile() up to the join of closeFile()
CloseBegin ==
    /\ UserOp
    /\ m_running' = FALSE
    /\ ctlPc' = "closing"
    /\ errorOccurred' = FALSE
    /\ fileLoaded' = FALSE
    /\ hwInitCalled' = FALSE
    /\ UNCHANGED <<positionChanged, m_currentFile, m_decodeMode, seekArg,
                   peerVars, fileVars, avPos, m_playing, m_paused, m_loop, m_volume,
                   m_currentPts, m_seeking, m_seekTarget, avVars,
                   audioClockVars, timerVars, packetQueues, m_frameQueue,
                   m_audioQueue, demuxVars, vdecVars, adecVars, ctlFrame,
                   m_d3dMutex, deviceVars, toldVars>>

\* the outcomes of an open: the step of openFile() that fails, or "none"
OpenFailures ==
    {"avformat_open_input", "avformat_find_stream_info",
     "avcodec_find_decoder", "avcodec_open2", "none"}

\* openFile() calls initHardwareDecoder: the file has a video stream, the
\* steps before succeeded, and
\* if (m_decodeMode == Software) {} else { if (!initHardwareDecoder(codec))
CallsHwInit(mode, kind, fails) ==
    /\ kind # "a"
    /\ fails \notin {"avformat_open_input", "avformat_find_stream_info",
                     "avcodec_find_decoder"}
    /\ mode # "Software"

\* openFile() returns true: no step that the file reaches fails, and
\* not (!initHardwareDecoder(codec) && m_decodeMode == Hardware)
Opens(mode, kind, fails, hw) ==
    /\ fails \notin {"avformat_open_input", "avformat_find_stream_info"}
    /\ kind # "a" => fails = "none"
    /\ ~(CallsHwInit(mode, kind, fails) /\ ~hw /\ mode = "Hardware")

\* openFile() from the join on: the old file is closed, and the new one
\* is opened (with or without a hardware decoder) or fails at one step
OpenFile(fails, kind, hw) ==
    /\ ctlPc = "closing"
    /\ WorkersStopped
    /\ demuxPc' = "off" /\ vdecPc' = "off" /\ adecPc' = "off"
    /\ m_videoPacketQueue' = <<>>
    /\ m_audioPacketQueue' = <<>>
    /\ m_frameQueue' = <<>>
    /\ m_audioQueue' = <<>>
    /\ m_formatCtx' = Opens(m_decodeMode, kind, fails, hw)
    /\ fileKind' = IF Opens(m_decodeMode, kind, fails, hw) THEN kind ELSE "av"
    /\ m_hwDeviceCtx' = /\ Opens(m_decodeMode, kind, fails, hw)
                        /\ CallsHwInit(m_decodeMode, kind, fails)
                        /\ hw
    /\ avPos' = 0
    /\ seekFloor' = 0
    /\ wrapPending' = FALSE
    /\ eofEmitted' = FALSE
    /\ ctlPc' = "idle"
    /\ errorOccurred' = ~Opens(m_decodeMode, kind, fails, hw)
    /\ fileLoaded' = Opens(m_decodeMode, kind, fails, hw)
    /\ m_currentFile' = IF Opens(m_decodeMode, kind, fails, hw)
                        THEN kind ELSE m_currentFile
    /\ hwInitCalled' = CallsHwInit(m_decodeMode, kind, fails)
    /\ readFailed' = FALSE
    /\ UNCHANGED <<positionChanged, m_decodeMode, seekArg, peerVars, events,
                   stateVars, avVars, audioClockVars, timerVars, demuxPkt,
                   vdecItem, adecItem, ctlFrame, m_d3dMutex, deviceVars>>


(***************************************************************************)
(* The render tick, D3D11Renderer::onRenderTimer: the dynamic-delay        *)
(* scheduler in the section under m_frameMutex, then the presentation.     *)
(***************************************************************************)
\* the catch-up loop testing the head instead of the frame behind it
\* (variant of DropLate)
RECURSIVE DropLateHead(_, _, _)
DropLateHead(q, refClock, dropped) ==
    IF Len(q) > 1 /\ dropped < MaxDrop /\ q[1].pts < refClock
    THEN DropLateHead(Tail(q), refClock, dropped + 1)
    ELSE dropped

\* the catch-up loop: while (size > 1 && dropped < 5) drop the head if the
\* frame behind it is already late; the number of frames dropped
\* the drop loop without the test of the next frame's pts (variant of
\* DropLate)
RECURSIVE DropLateUntested(_, _, _)
DropLateUntested(q, refClock, dropped) ==
    IF Len(q) > 1 /\ dropped < MaxDrop
    THEN DropLateUntested(Tail(q), refClock, dropped + 1)
    ELSE dropped

RECURSIVE DropLate(_, _, _)
DropLate(q, refClock, dropped) ==
    IF Len(q) > 1 /\ dropped < MaxDrop /\ q[2].pts < refClock
    THEN DropLate(Tail(q), refClock, dropped + 1)
    ELSE dropped

\* the clamp without its lower bound (variant of ClampDelay)
ClampDelayUpper(delay) == Min(MAX_DELAY, delay)

\* delay = qBound(MIN_DELAY, delay, MAX_DELAY)
ClampDelay(delay) == qBound(MIN_DELAY, delay, MAX_DELAY)

\* the delay of the branch "video ahead of audio"
SlowDown(delay, diff, lastDelay) ==
    IF lastDelay > FRAMEDUP_THRESHOLD
    THEN delay + diff
    ELSE Min(2 * delay, 2 * delay + diff)

\* the offset recomputed on every tick (variant of TickOffset)
TickOffsetAlways ==
    IF m_audioClockValid
    THEN Head(m_frameQueue).pts - m_audioStartPts
    ELSE m_avSyncOffset

\* the first-frame bookkeeping of the tick
TickFirst == ~m_videoClockValid
\* m_avSyncOffset after it
TickOffset ==
    IF TickFirst /\ m_audioClockValid
    THEN Head(m_frameQueue).pts - m_audioStartPts
    ELSE m_avSyncOffset
TickRefClock == m_audioClock + TickOffset
TickDiff == Head(m_frameQueue).pts - TickRefClock
TickBaseDelay ==
    LET lastPts == IF TickFirst THEN Head(m_frameQueue).pts ELSE m_lastFramePts
        delay == Head(m_frameQueue).pts - lastPts
    IN  IF delay <= 0 \/ delay > 1000 THEN m_lastDelay ELSE delay
TickSyncThreshold ==
    Max(MIN_SYNC_THRESHOLD, Min(MAX_SYNC_THRESHOLD, TickBaseDelay))
\* the test without the limit on the distance (variant of TickSynced)
TickSyncedAlways == m_audioClockValid
TickSynced == m_audioClockValid /\ Abs(TickDiff) < NOSYNC_THRESHOLD
TickBehind == TickSynced /\ TickDiff <= 0 - TickSyncThreshold
TickAhead == TickSynced /\ ~TickBehind /\ TickDiff >= TickSyncThreshold
TickCatchUp ==
    /\ TickBehind
    /\ m_consecutiveFastRender + 1 >= FastRenderLimit
    /\ TickDiff < 0 - 1000
TickDelay ==
    IF TickBehind THEN Max(0, TickBaseDelay + TickDiff)
    ELSE IF TickAhead THEN SlowDown(TickBaseDelay, TickDiff, m_lastDelay)
    ELSE TickBaseDelay

\* the test without the stored due time (variant of TickDue)
TickDueAlways == m_playing /\ ~m_paused

\* the tick is due: playing, and the stored due time is not in the future
TickDue ==
    /\ m_playing /\ ~m_paused
    /\ ~(m_frameTimer > 0 /\ Epoch < m_frameTimer)

OnRenderTimer ==
    /\ ctlPc = "idle"
    /\ TickDue
    /\ m_frameQueue # <<>>
    /\ LET dropped == IF TickCatchUp
                      THEN DropLate(m_frameQueue, TickRefClock, 0) ELSE 0
           rest == SubSeq(m_frameQueue, dropped + 1, Len(m_frameQueue))
           delay == ClampDelay(TickDelay)
       IN  /\ m_videoStartPts' = IF TickFirst THEN Head(m_frameQueue).pts
                                 ELSE m_videoStartPts
           /\ m_videoClockValid' = TRUE
           /\ m_avSyncOffset' = TickOffset
           /\ m_consecutiveFastRender' =
                 IF TickBehind /\ ~TickCatchUp
                 THEN m_consecutiveFastRender + 1 ELSE 0
           /\ lastDropped' = dropped
           /\ m_lastFramePts' = Head(rest).pts
           /\ m_lastDelay' = delay
           /\ ctlFrame' = Head(rest)
           /\ m_frameQueue' = Tail(rest)
           /\ m_frameTimer' = Epoch + delay
           /\ ctlPc' = "present"
    /\ UNCHANGED <<notifyVars, peerVars, events, fileVars, avPos, stateVars, m_audioClockValid,
                   m_audioStartPts, audioClockVars, packetQueues,
                   m_audioQueue, demuxVars, vdecVars, adecVars, m_d3dMutex,
                   deviceVars, toldVars>>

\* QMutexLocker d3dLock(&m_d3dMutex) of renderBGRAFrame / renderNV12Frame
RenderLock ==
    /\ ctlPc = "present"
    /\ D3dMutexFree
    /\ m_d3dMutex' = "ctl"
    /\ ctlPc' = "draw"
    /\ UNCHANGED <<notifyVars, peerVars, events, fileVars, avPos, stateVars, avVars, audioClockVars,
                   timerVars, packetQueues, m_frameQueue, m_audioQueue,
                   demuxVars, vdecVars, adecVars, ctlFrame, deviceVars,
                   toldVars>>

\* the frame is presented, the locker leaves scope, and the position is
\* notified
RenderDone ==
    /\ ctlPc = "draw"
    /\ m_d3dMutex' = "free"
    /\ m_currentPts' = ctlFrame.pts
    /\ ctlPc' = "idle"
    /\ ctlFrame' = NoFrame
    /\ wrapPending' = (wrapPending /\ ctlFrame.pts > NearZero)
    /\ positionChanged' = ctlFrame.pts
    /\ UNCHANGED <<readFailed, errorOccurred, fileLoaded, m_currentFile, m_decodeMode,
                   hwInitCalled, seekArg, peerVars, events, fileVars, avPos, m_playing, m_paused, m_loop, m_volume,
                   m_running, m_seeking, m_seekTarget, avVars, audioClockVars,
                   timerVars, packetQueues, m_frameQueue, m_audioQueue,
                   demuxVars, vdecVars, adecVars, deviceVars, eofEmitted, seekFloor>>

\* resizeEvent -> resizeSwapChain
ResizeLock ==
    /\ UserOp
    /\ D3dMutexFree
    /\ m_d3dMutex' = "ctl"
    /\ ctlPc' = "resize"
    /\ UNCHANGED <<notifyVars, peerVars, fileVars, avPos, stateVars, avVars, audioClockVars,
                   timerVars, packetQueues, m_frameQueue, m_audioQueue,
                   demuxVars, vdecVars, adecVars, ctlFrame, deviceVars,
                   toldVars>>

ResizeDone ==
    /\ ctlPc = "resize"
    /\ m_d3dMutex' = "free"
    /\ ctlPc' = "idle"
    /\ UNCHANGED <<notifyVars, peerVars, events, fileVars, avPos, stateVars, avVars, audioClockVars,
                   timerVars, packetQueues, m_frameQueue, m_audioQueue,
                   demuxVars, vdecVars, adecVars, ctlFrame, deviceVars,
                   toldVars>>

\* the wall clock reaches the due time of the next frame
TimePasses ==
    /\ m_frameTimer > Epoch
    /\ m_frameTimer' = Epoch
    /\ UNCHANGED <<notifyVars, peerVars, fileVars, avPos, stateVars, avVars, audioClockVars,
                   m_lastFramePts, m_lastDelay, m_consecutiveFastRender,
                   lastDropped, packetQueues, m_frameQueue, m_audioQueue,
                   demuxVars, vdecVars, adecVars, ctlVars, m_d3dMutex,
                   deviceVars, toldVars>>


(***************************************************************************)
(* The audio tick, D3D11Renderer::onAudioTimer -> processAudio, in the     *)
(* build with SDL3: buffers go from the audio queue to the device stream   *)
(* while the stream holds less than SdlMaxQueued bytes.                    *)
(***************************************************************************)
\* the adjustment without the volumeAdjusted flag (variant of ScaleVolume)
ScaleVolumeAgain(ad, volume) ==
    IF volume < 100 THEN [ad EXCEPT !.scaled = @ + 1] ELSE ad

\* the volume adjustment of the head buffer
ScaleVolume(ad, volume) ==
    IF volume < 100 /\ ~ad.volumeAdjusted
    THEN [ad EXCEPT !.volumeAdjusted = TRUE, !.scaled = @ + 1]
    ELSE ad

\* the buffer keeps the bytes in front of the written ones (variant of
\* Remainder)
RemainderLeft(ad, written) == [ad EXCEPT !.size = @ - written]

\* ad.data = ad.data.mid(offset): the buffer keeps the bytes behind the
\* written ones
Remainder(ad, written) ==
    [ad EXCEPT !.size = @ - written, !.first = @ + written]

\* the bytes of a buffer handed to the device by one write
Taken(ad, written) == [pts |-> ad.pts, first |-> ad.first, size |-> written]

\* the write loop; st holds the audio queue, the bytes queued in the
\* stream, the bytes written, the clock fields the loop assigns and the
\* byte ranges handed to the device, and puts is the number of
\* SDL_PutAudioStreamData calls that succeed before one fails
RECURSIVE SdlDrain(_, _, _)
SdlDrain(st, volume, puts) ==
    IF st.q = <<>> \/ st.queued >= SdlMaxQueued
    THEN st
    ELSE LET ad == ScaleVolume(Head(st.q), volume)
             first == [st EXCEPT
                         !.start = IF st.valid THEN @ ELSE ad.pts,
                         !.offset = IF ~st.valid /\ m_videoClockValid
                                    THEN m_videoStartPts - ad.pts ELSE @,
                         !.valid = TRUE]
         IN  IF puts = 0
             THEN [first EXCEPT !.q = <<ad>> \o Tail(st.q)]
             ELSE SdlDrain([first EXCEPT !.q = Tail(st.q),
                                         !.queued = @ + ad.size,
                                         !.written = @ + ad.size,
                                         !.took = Append(@, Taken(ad, ad.size))],
                           volume, puts - 1)

\* the clock without the lower bound on the played bytes
AudioClockUnclamped(start, written, queued) == start + PlayedMs(written - queued)

\* m_audioClock = m_audioStartPts + playedSeconds
AudioClockOf(start, written, queued) ==
    start + PlayedMs(Max(0, written - queued))

\* what the write loop of one audio tick leaves
SdlTick(puts) ==
    LET st0 == [q |-> m_audioQueue, queued |-> sdlQueued,
                written |-> m_audioWrittenBytes,
                valid |-> m_audioClockValid, start |-> m_audioStartPts,
                offset |-> m_avSyncOffset, took |-> <<>>]
    IN  IF sdlQueued > SdlMaxQueued THEN st0
        ELSE SdlDrain(st0, m_volume, puts)

processAudio(puts) ==
    /\ ctlPc = "idle"
    /\ m_playing /\ ~m_paused
    /\ m_sdlAudioStream
    /\ LET st == SdlTick(puts)
       IN  /\ m_audioQueue' = st.q
           /\ sdlQueued' = st.queued
           /\ m_audioWrittenBytes' = st.written
           /\ m_audioClockValid' = st.valid
           /\ m_audioStartPts' = st.start
           /\ m_avSyncOffset' = st.offset
           /\ m_audioClock' = IF st.valid
                              THEN AudioClockOf(st.start, st.written, st.queued)
                              ELSE m_audioClock
    /\ UNCHANGED <<notifyVars, peerVars, fileVars, avPos, stateVars, m_videoClockValid,
                   m_videoStartPts, timerVars, packetQueues, m_frameQueue,
                   demuxVars, vdecVars, adecVars, ctlVars, m_d3dMutex,
                   m_sdlAudioStream, m_audioDevice, toldVars>>

(***************************************************************************)
(* The audio tick in the build without SDL3: buffers go to the QAudioSink  *)
(* while it has SinkMinFree bytes free; a buffer the device takes a part   *)
(* of stays at the head with the rest of its bytes.  sdlQueued counts the  *)
(* bytes the sink buffers (its size is SinkBufferSize), accepted is the    *)
(* number of bytes the device takes in this tick before a write returns    *)
(* nothing, processed is the play time processedUSecs() reports.           *)
(***************************************************************************)
RECURSIVE SinkDrain(_, _, _)
SinkDrain(st, volume, accepted) ==
    LET bytesFree == SinkBufferSize - st.queued IN
    IF st.q = <<>> \/ bytesFree < SinkMinFree
    THEN st
    ELSE LET ad == ScaleVolume(Head(st.q), volume)
             written == Min(Min(bytesFree, ad.size), accepted)
             first == [st EXCEPT
                         !.start = IF st.valid THEN @ ELSE ad.pts,
                         !.valid = TRUE,
                         !.queued = @ + written,
                         !.written = @ + written,
                         !.took = IF written > 0
                                  THEN Append(@, Taken(ad, written)) ELSE @]
         IN  IF written = ad.size
             THEN SinkDrain([first EXCEPT !.q = Tail(st.q)],
                            volume, accepted - written)
             ELSE [first EXCEPT
                      !.q = <<Remainder(ad, written)>> \o Tail(st.q)]

SinkWrites == {0, AudioBufBytes \div 2, 2 * AudioBufBytes}
SinkProcessed == {0, 2 * PktMs}

\* what the write loop of one audio tick leaves
SinkTick(accepted) ==
    SinkDrain([q |-> m_audioQueue, queued |-> sdlQueued,
               written |-> m_audioWrittenBytes,
               valid |-> m_audioClockValid, start |-> m_audioStartPts,
               took |-> <<>>],
              m_volume, accepted)

processAudioSink(accepted, processed) ==
    /\ ctlPc = "idle"
    /\ m_playing /\ ~m_paused
    /\ m_audioDevice
    /\ LET st == SinkTick(accepted)
       IN  /\ m_audioQueue' = st.q
           /\ sdlQueued' = st.queued
           /\ m_audioWrittenBytes' = st.written
           /\ m_audioClockValid' = st.valid
           /\ m_audioStartPts' = st.start
           /\ m_audioClock' = IF st.valid THEN st.start + processed
                              ELSE m_audioClock
    /\ UNCHANGED <<notifyVars, peerVars, fileVars, avPos, stateVars, m_videoClockValid,
                   m_videoStartPts, m_avSyncOffset, timerVars, packetQueues,
                   m_frameQueue, demuxVars, vdecVars, adecVars, ctlVars,
                   m_d3dMutex, m_sdlAudioStream, m_audioDevice, toldVars>>

\* the device consumes one buffer's worth of the bytes it has buffered
DevicePlays ==
    /\ m_sdlAudioStream \/ m_audioDevice
    /\ sdlQueued > 0
    /\ sdlQueued' = sdlQueued - Min(AudioBufBytes, sdlQueued)
    /\ UNCHANGED <<notifyVars, peerVars, fileVars, avPos, stateVars, avVars, audioClockVars,
                   timerVars, packetQueues, m_frameQueue, m_audioQueue,
                   demuxVars, vdecVars, adecVars, ctlVars, m_d3dMutex,
                   m_sdlAudioStream, m_audioDevice, toldVars>>

(***************************************************************************)
(* The program: every thread's steps, the callers' operations, the timers, *)
(* time and the audio device.                                              *)
(***************************************************************************)
Demux ==
    \/ DemuxTop \/ DemuxSeekDone \/ DemuxReadPacket \/ DemuxLoopWrap
    \/ DemuxEndOfFile \/ DemuxReadError \/ DemuxPutVideo \/ DemuxPutAudio
VideoDecode ==
    \/ VdecExit \/ VdecTake \/ VdecFlush \/ VdecLock \/ VdecUnlock
    \/ VdecTextureFails \/ VdecPut
AudioDecode ==
    \/ AdecExit \/ AdecTake \/ AdecFlush \/ AdecPut
Operations ==
    \/ Play \/ Pause \/ StopBegin \/ StopJoin
    \/ \E seconds \in SeekInputs : Seek(seconds)
    \/ \E volume \in VolumeInputs : setVolume(volume)
    \/ \E loop \in BOOLEAN : setLoop(loop)
    \/ CloseBegin
    \/ \E fails \in OpenFailures, kind \in FileKinds, hw \in BOOLEAN :
          OpenFile(fails, kind, hw)
\* the render tick, while the count of consecutive fast renders is in bound
BoundedRenderTimer ==
    OnRenderTimer /\ m_consecutiveFastRender' <= MaxFastTicks

Timers ==
    \/ BoundedRenderTimer \/ RenderLock \/ RenderDone
    \/ ResizeLock \/ ResizeDone
    \/ \E puts \in 0..MaxAudioQueue : processAudio(puts)
    \/ TimePasses \/ DevicePlays

Next == Demux \/ VideoDecode \/ AudioDecode \/ Operations \/ Timers

Spec == Init /\ [][Next]_vars


(***************************************************************************)
(* Playback of a loaded file.  Loaded(kind, hw, spent) is the state        *)
(* loadFile() leaves: the file is open, the threads are started and        *)
(* nothing is read yet; spent is the number of events the run has had.     *)
(* The audio device is open as the build has it, SdlOpen or SinkOpen.      *)
(***************************************************************************)
Loaded(kind, hw, spent) ==
    /\ m_formatCtx = TRUE /\ m_hwDeviceCtx = hw /\ fileKind = kind
    /\ avPos = 0
    /\ m_playing = TRUE /\ m_paused = FALSE /\ m_loop = TRUE
    /\ m_volume = 100 /\ m_currentPts = 0
    /\ m_running = TRUE /\ m_seeking = FALSE /\ m_seekTarget = 0
    /\ m_audioClockValid = FALSE /\ m_videoClockValid = FALSE
    /\ m_audioStartPts = 0 /\ m_videoStartPts = 0 /\ m_avSyncOffset = 0
    /\ m_audioClock = 0 /\ m_audioWrittenBytes = 0
    /\ m_frameTimer = 0 /\ m_lastFramePts = 0 /\ m_lastDelay = DefaultDelay
    /\ m_consecutiveFastRender = 0 /\ lastDropped = 0
    /\ m_videoPacketQueue = <<>> /\ m_audioPacketQueue = <<>>
    /\ m_frameQueue = <<>> /\ m_audioQueue = <<>>
    /\ demuxPc = "top" /\ demuxPkt = NoPkt
    /\ vdecPc = (IF kind \in {"av", "v"} THEN "take" ELSE "off")
    /\ vdecItem = NoFrame
    /\ adecPc = (IF kind \in {"av", "a"} THEN "take" ELSE "off")
    /\ adecItem = NoAudio
    /\ ctlPc = "idle" /\ ctlFrame = NoFrame /\ events = spent
    /\ m_d3dMutex = "free"
    /\ sdlQueued = 0
    /\ eofEmitted = FALSE /\ seekFloor = 0 /\ wrapPending = FALSE
    /\ readFailed = FALSE
    /\ positionChanged = 0 /\ errorOccurred = FALSE /\ fileLoaded = TRUE
    /\ m_currentFile = kind /\ m_decodeMode = "Auto"
    /\ hwInitCalled = (kind # "a")
    /\ seekArg = [player \in Players |-> 0]
    /\ PeersConstructed

\* setupAudio() in the build with SDL3: the device stream is open
SdlOpen == m_sdlAudioStream = TRUE /\ m_audioDevice = FALSE
\* setupAudio() in the build without SDL3: the QAudioSink is started
SinkOpen == m_sdlAudioStream = FALSE /\ m_audioDevice = TRUE

\* the steps of a playback nobody interferes with and nothing fails in
Playback ==
    \/ DemuxTop \/ DemuxReadPacket \/ DemuxLoopWrap
    \/ DemuxPutVideo \/ DemuxPutAudio
    \/ VdecTake \/ VdecFlush \/ VdecLock \/ VdecUnlock \/ VdecPut
    \/ AdecTake \/ AdecFlush \/ AdecPut
    \/ RenderLock \/ RenderDone
    \/ \E puts \in 0..MaxAudioQueue : processAudio(puts)
    \/ TimePasses \/ DevicePlays

(***************************************************************************)
(* SyncSpec: a file with both streams is played, paused and resumed, and   *)
(* rewound at its end.                                                     *)
(***************************************************************************)
SyncInit == Loaded("av", FALSE, 1) /\ SdlOpen

SyncNext ==
    \/ Playback \/ BoundedRenderTimer
    \/ Pause \/ Play

SyncSpec == SyncInit /\ [][SyncNext]_vars


(***************************************************************************)
(* LoopSpec: a file is played to its end, where it is rewound or, once    *)
(* the caller has cleared the loop flag, ends.  Every thread keeps         *)
(* running, the timers keep firing, time passes and the device keeps       *)
(* playing.                                                                *)
(***************************************************************************)
LoopInit ==
    /\ \E kind \in FileKinds : Loaded(kind, FALSE, MaxEvents - 1)
    /\ SdlOpen

DemuxSteps ==
    \/ DemuxTop \/ DemuxReadPacket \/ DemuxLoopWrap \/ DemuxEndOfFile
    \/ DemuxPutVideo \/ DemuxPutAudio
VdecSteps == VdecTake \/ VdecFlush \/ VdecLock \/ VdecUnlock \/ VdecPut
AdecSteps == AdecTake \/ AdecFlush \/ AdecPut
PresentSteps == RenderLock \/ RenderDone

LoopNext ==
    \/ Playback \/ OnRenderTimer \/ DemuxEndOfFile
    \/ \E loop \in BOOLEAN : setLoop(loop)

LoopSpec ==
    /\ LoopInit
    /\ [][LoopNext]_vars
    /\ WF_vars(DemuxSteps)
    /\ WF_vars(VdecSteps)
    /\ WF_vars(AdecSteps)
    /\ WF_vars(OnRenderTimer)
    /\ WF_vars(PresentSteps)
    /\ WF_vars(processAudio(MaxAudioQueue))
    /\ WF_vars(TimePasses)
    /\ WF_vars(DevicePlays)

(***************************************************************************)
(* AudioSpec: the audio path of a playback in either build: the demuxer    *)
(* feeds the audio decoder, the audio tick writes to the device, the       *)
(* device takes all, a part or nothing of what it is offered, and the      *)
(* caller changes the volume in between.                                   *)
(***************************************************************************)
AudioInit == Loaded("a", FALSE, 0) /\ (SdlOpen \/ SinkOpen)

AudioNext ==
    \/ DemuxTop \/ DemuxReadPacket \/ DemuxLoopWrap \/ DemuxPutAudio
    \/ AdecTake \/ AdecFlush \/ AdecPut
    \/ \E puts \in 0..MaxAudioQueue : processAudio(puts)
    \/ \E accepted \in SinkWrites, processed \in SinkProcessed :
          processAudioSink(accepted, processed)
    \/ \E volume \in VolumeInputs : setVolume(volume)
    \/ DevicePlays

AudioSpec == AudioInit /\ [][AudioNext]_vars

(***************************************************************************)
(* SchedSpec: the scheduler of the render tick on inputs drawn from a      *)
(* long playback: up to MAX_FRAME_QUEUE frames queued, the audio clock     *)
(* anywhere around them, any recent history of the tick.                   *)
(***************************************************************************)
SchedPts == {0, 40, 900, 2100}
SchedFrame(pts) == [pts |-> pts, isBGRA |-> TRUE]
SchedQueues ==
    {<<SchedFrame(a)>> : a \in SchedPts}
    \cup {<<SchedFrame(p[1]), SchedFrame(p[2])>> :
             p \in {x \in SchedPts \X SchedPts : x[1] < x[2]}}
    \cup {<<SchedFrame(p[1]), SchedFrame(p[2]), SchedFrame(p[3])>> :
             p \in {x \in SchedPts \X SchedPts \X SchedPts :
                       x[1] < x[2] /\ x[2] < x[3]}}

\* the values of the audio clock around the queued frames
SchedClocks == {0, 40, 1500, 2000}

\* the tick's inputs with the given video packets still to decode and the
\* audio clock at one of the given values
SchedStartAt(packets, clocks) ==
    /\ m_formatCtx = TRUE /\ m_hwDeviceCtx = FALSE /\ fileKind = "av"
    /\ avPos = StreamLen
    /\ m_playing = TRUE /\ m_paused = FALSE /\ m_loop = FALSE
    /\ m_volume = 100 /\ m_currentPts = 0
    /\ m_running = TRUE /\ m_seeking = FALSE /\ m_seekTarget = 0
    /\ m_audioClockValid \in BOOLEAN /\ m_videoClockValid \in BOOLEAN
    /\ m_audioStartPts = 0 /\ m_videoStartPts = 0 /\ m_avSyncOffset = 0
    /\ m_audioClock \in clocks /\ m_audioWrittenBytes = 0
    /\ m_frameTimer = 0
    /\ m_lastFramePts \in {0, 40}
    /\ m_lastDelay \in {MIN_DELAY, DefaultDelay, FRAMEDUP_THRESHOLD + 50}
    /\ m_consecutiveFastRender \in {0, FastRenderLimit - 2, FastRenderLimit - 1}
    /\ lastDropped = 0
    /\ m_videoPacketQueue = packets /\ m_audioPacketQueue = <<>>
    /\ m_frameQueue \in SchedQueues /\ m_audioQueue = <<>>
    /\ demuxPc = "done" /\ demuxPkt = NoPkt
    /\ vdecPc = "take" /\ vdecItem = NoFrame
    /\ adecPc = "take" /\ adecItem = NoAudio
    /\ ctlPc = "idle" /\ ctlFrame = NoFrame /\ events = 0
    /\ m_d3dMutex = "free"
    /\ SdlOpen /\ sdlQueued = 0
    /\ eofEmitted = TRUE /\ seekFloor = 0 /\ wrapPending = FALSE
    /\ readFailed = FALSE
    /\ positionChanged = 0 /\ errorOccurred = FALSE /\ fileLoaded = TRUE
    /\ m_currentFile = "av" /\ m_decodeMode = "Auto"
    /\ hwInitCalled = TRUE
    /\ seekArg = [player \in Players |-> 0]
    /\ PeersConstructed

SchedStart(packets) == SchedStartAt(packets, SchedClocks)

SchedInit == SchedStart(<<>>)

SchedNext == OnRenderTimer \/ RenderLock \/ RenderDone \/ TimePasses

SchedSpec == SchedInit /\ [][SchedNext]_vars

(***************************************************************************)
(* OrderSpec: the render tick on the same inputs while the video decoder   *)
(* still has the last two video packets of the stream to decode and to     *)
(* enqueue.                                                                *)
(***************************************************************************)
OrderInit == SchedStart(<<2, 3>>)

OrderNext ==
    \/ VdecTake \/ VdecLock \/ VdecUnlock \/ VdecPut
    \/ OnRenderTimer \/ RenderLock \/ RenderDone \/ TimePasses

OrderSpec == OrderInit /\ [][OrderNext]_vars


(***************************************************************************)
(* Properties.                                                             *)
(***************************************************************************)

\* C1: the decode-side sections that use the GPU context (the hardware
\* copy and the software upload of videoDecodeThread) and the present-side
\* sections (renderNV12Frame, renderBGRAFrame, resizeSwapChain) are never
\* executed at the same time.
GpuSectionsExclusive ==
    ~(vdecPc = "gpu" /\ ctlPc \in {"draw", "resize"})

\* the decoder wants the mutex while a frame is being presented
GpuContended == vdecPc = "copy" /\ ctlPc = "draw" /\ m_d3dMutex = "ctl"

\* C2: none of the four queues ever holds more items than its capacity,
\* the flush markers of a loop wrap counted as items.
QueuesWithinCapacity ==
    /\ Len(m_videoPacketQueue) <= MaxVideoPackets
    /\ Len(m_audioPacketQueue) <= MaxAudioPackets
    /\ Len(m_frameQueue) <= MAX_FRAME_QUEUE
    /\ Len(m_audioQueue) <= MaxAudioQueue

\* C3: a producer blocked on a full queue leaves its wait loop as soon as
\* an item was dequeued or a cancellation flag is raised (m_running
\* cleared or m_seeking set).
ProducersLeaveWait ==
    /\ (demuxPc = "vput"
          /\ (Len(m_videoPacketQueue) < MaxVideoPackets
                \/ ~m_running \/ m_seeking))
       => ENABLED DemuxPutVideo
    /\ (demuxPc = "aput"
          /\ (Len(m_audioPacketQueue) < MaxAudioPackets
                \/ ~m_running \/ m_seeking))
       => ENABLED DemuxPutAudio
    /\ (vdecPc = "fput"
          /\ (Len(m_frameQueue) < MAX_FRAME_QUEUE \/ ~m_running \/ m_seeking))
       => ENABLED VdecPut
    /\ (adecPc = "aput"
          /\ (Len(m_audioQueue) < MaxAudioQueue \/ ~m_running \/ m_seeking))
       => ENABLED AdecPut

\* C4: after seek(t) no frame from before the seek is presented: every
\* position notified is at or after the point the seek lands on.
NoStaleFrames == m_currentPts >= seekFloor

VolumeScaledOnce ==
    \A i \in 1..Len(m_audioQueue) :
        m_audioQueue[i].scaled = (IF m_audioQueue[i].volumeAdjusted
                                  THEN 1 ELSE 0)

\* a scaled buffer the device took a part of waits at the head for the
\* retry, and the volume was set again in between
ScaledBufferRetried ==
    /\ m_audioQueue # <<>>
    /\ Head(m_audioQueue).volumeAdjusted
    /\ Head(m_audioQueue).scaled = 1
    /\ Head(m_audioQueue).size < AudioBufBytes
    /\ m_volume = 100
    /\ events = 2

\* C7: when the tick dequeues a frame, the due time of the next one is
\* between 1 ms and 500 ms after the current time.
FrameTimerInRange ==
    [][(ctlPc = "idle" /\ ctlPc' = "present") =>
          /\ m_frameTimer' >= Epoch + MIN_DELAY
          /\ m_frameTimer' <= Epoch + MAX_DELAY]_vars

\* a tick has clamped the delay at its lower end
DelayClampedLow ==
    ctlPc = "present" /\ m_frameTimer = Epoch + MIN_DELAY

EndOfFileAfterDrain ==
    [][(~eofEmitted /\ eofEmitted') =>
          /\ m_videoPacketQueue' = <<>> /\ m_audioPacketQueue' = <<>>
          /\ m_frameQueue' = <<>> /\ m_audioQueue' = <<>>
          /\ vdecItem' = NoFrame /\ ctlFrame' = NoFrame]_vars

DecodeModes == {"Auto", "Hardware", "Software"}

\* OpenGLRenderer::openFile calls initHardwareDecoder:
\* if (m_decodeMode != Software) { if (!initHardwareDecoder(codec)) {
GlCallsHwInit(mode, kind, fails) ==
    /\ kind # "a"
    /\ fails \notin {"avformat_open_input", "avformat_find_stream_info",
                     "avcodec_find_decoder"}
    /\ mode # "Software"

\* OpenGLRenderer::openFile returns true: the container opens, there is a
\* video stream, its decoder is found and opens, and a failure of the
\* hardware decoder is not fatal
GlOpens(mode, kind, fails, hw) ==
    /\ fails = "none"
    /\ kind # "a"
    /\ ~(GlCallsHwInit(mode, kind, fails) /\ ~hw /\ mode = "Hardware")

\* OpenGLRenderer::openFile(filename), closeFile() included
GlOpenFile(fails, kind, hw) ==
    /\ gl_running' = FALSE
    /\ gl_formatCtx' = GlOpens(gl_decodeMode, kind, fails, hw)
    /\ gl_duration' = IF GlOpens(gl_decodeMode, kind, fails, hw)
                      THEN Duration ELSE 0
    /\ gl_hwDeviceCtx' = /\ GlOpens(gl_decodeMode, kind, fails, hw)
                         /\ GlCallsHwInit(gl_decodeMode, kind, fails)
                         /\ hw
    /\ gl_currentFile' = IF GlOpens(gl_decodeMode, kind, fails, hw)
                         THEN kind ELSE gl_currentFile
    /\ gl_errorOccurred' = ~GlOpens(gl_decodeMode, kind, fails, hw)
    /\ gl_fileLoaded' = GlOpens(gl_decodeMode, kind, fails, hw)
    /\ gl_hwInitCalled' = GlCallsHwInit(gl_decodeMode, kind, fails)
    /\ gl_decodeThread' = FALSE /\ glPc' = "off" /\ glItem' = NoPkt
    /\ gl_pos' = 0
    /\ gl_frameQueue' = <<>> /\ gl_audioQueue' = <<>>
    /\ UNCHANGED <<d3dVars, seekArg, glSeekVars, gl_decodeMode, gl_playing,
                   glPlayVars, ffVars>>

\* OpenGLRenderer::seek(seconds)
GlSeek(seconds) ==
    /\ gl_seekTarget' = qBound(0, seconds, gl_duration)
    /\ gl_seeking' = TRUE
    /\ gl_currentPts' = qBound(0, seconds, gl_duration)
    /\ gl_audioClock' = qBound(0, seconds, gl_duration)
    /\ gl_positionChanged' = qBound(0, seconds, gl_duration)
    /\ seekArg' = [seekArg EXCEPT !["OpenGLRenderer"] = seconds]
    /\ UNCHANGED <<d3dVars, glFileVars, gl_decodeMode, gl_playing, gl_running,
                   glThreadVars, glQueueVars, glPlayVars, ffVars>>

\* DecodeThread::openFile returns true: initHardwareDecoder is always
\* tried and its failure is never fatal
DtOpens(kind, fails) ==
    /\ fails \notin {"avformat_open_input", "avformat_find_stream_info"}
    /\ kind # "a" => fails = "none"

\* FFmpegPlayer::loadFile(filename): stop(), remember the file, open it in
\* the DecodeThread; fileOpened -> onFileOpened, errorOccurred ->
\* onDecodeError (stop() and errorOccurred)
FfLoadFile(fails, kind) ==
    /\ dt_running' = FALSE
    /\ ff_currentPosition' = 0
    /\ ff_audioClock' = 0
    /\ ff_positionChanged' = 0
    /\ ff_state' = "StoppedState"
    /\ ff_currentFile' = kind
    /\ dt_formatCtx' = DtOpens(kind, fails)
    /\ ff_duration' = IF DtOpens(kind, fails) THEN Duration ELSE ff_duration
    /\ ff_fileLoaded' = DtOpens(kind, fails)
    /\ ff_errorOccurred' = ~DtOpens(kind, fails)
    /\ dtPc' = "off"
    /\ dt_pos' = 0
    /\ dt_videoQueue' = <<>>
    /\ dt_audioQueue' = <<>>
    /\ ff_audioDevice' = FALSE
    /\ UNCHANGED <<d3dVars, seekArg, glVars, ff_seekTarget, ff_seeking,
                   ff_startTime, ff_loop, ff_endOfFile, ff_deviceTook,
                   ff_frameReady>>

\* DecodeThread::seekTo(seconds)
DtSeekTo(seconds) ==
    /\ ff_seekTarget' = seconds
    /\ ff_seeking' = TRUE

\* FFmpegPlayer::seek(seconds)
FfSeek(seconds) ==
    /\ ff_currentPosition' = qBound(0, seconds, ff_duration)
    /\ ff_audioClock' = qBound(0, seconds, ff_duration)
    /\ ff_startTime' = Epoch - qBound(0, seconds, ff_duration)
    /\ DtSeekTo(qBound(0, seconds, ff_duration))
    /\ ff_positionChanged' = qBound(0, seconds, ff_duration)
    /\ seekArg' = [seekArg EXCEPT !["FFmpegPlayer"] = seconds]
    /\ UNCHANGED <<d3dVars, glVars, ffFileVars, ff_state, dt_running, dtVars,
                   ffQueueVars>>


\* OpenGLRenderer::setDecodeMode(mode)
GlSetDecodeMode(mode) ==
    /\ gl_decodeMode' = mode
    /\ UNCHANGED <<d3dVars, seekArg, glSeekVars, glFileVars, gl_playing,
                   gl_running, glThreadVars, glQueueVars, glPlayVars, ffVars>>

\* FFmpegPlayer::play(): from StoppedState with a remembered file it opens
\* the file again if m_duration == 0, then starts the DecodeThread in any
\* case; DecodeThread::run returns at once without a container
FfPlay(fails) ==
    /\ ff_state # "PlayingState"
    /\ IF ff_state = "StoppedState" /\ ff_currentFile # ""
       THEN /\ IF ff_duration = 0
               THEN /\ dt_formatCtx' = DtOpens(ff_currentFile, fails)
                    /\ ff_duration' = IF DtOpens(ff_currentFile, fails)
                                      THEN Duration ELSE 0
                    /\ ff_fileLoaded' =
                          (ff_fileLoaded \/ DtOpens(ff_currentFile, fails))
                    /\ ff_errorOccurred' =
                          (ff_errorOccurred \/ ~DtOpens(ff_currentFile, fails))
                    /\ ff_positionChanged' = 0
                    /\ dt_pos' = 0
                    /\ dt_videoQueue' = <<>>
                    /\ dt_audioQueue' = <<>>
               ELSE UNCHANGED <<dt_formatCtx, ff_duration, ff_fileLoaded,
                                ff_errorOccurred, ff_positionChanged, dt_pos,
                                dt_videoQueue, dt_audioQueue>>
            /\ ff_audioDevice' = TRUE
            /\ dt_running' = TRUE
            /\ dtPc' = IF dt_formatCtx' THEN "run" ELSE "done"
            /\ ff_endOfFile' = FALSE
       ELSE UNCHANGED <<dt_formatCtx, ff_duration, ff_fileLoaded,
                        ff_errorOccurred, ff_positionChanged, dt_pos,
                        dt_running, dtPc, ff_endOfFile, dt_videoQueue,
                        dt_audioQueue, ff_audioDevice>>
    /\ ff_startTime' = Epoch - ff_currentPosition
    /\ ff_state' = "PlayingState"
    /\ UNCHANGED <<d3dVars, seekArg, glVars, ff_currentPosition, ff_audioClock,
                   ff_seekTarget, ff_seeking, ff_currentFile, ff_loop,
                   ff_deviceTook, ff_frameReady>>

\* FFmpegPlayer::stop()
FfStop ==
    /\ dt_running' = FALSE
    /\ ff_currentPosition' = 0
    /\ ff_audioClock' = 0
    /\ ff_positionChanged' = 0
    /\ ff_state' = "StoppedState"
    /\ dtPc' = "off"
    /\ ff_audioDevice' = FALSE
    /\ UNCHANGED <<d3dVars, seekArg, glVars, ff_seekTarget, ff_seeking,
                   ff_startTime, ffFileVars, dt_pos, ff_loop, ff_endOfFile,
                   dt_videoQueue, dt_audioQueue, ff_deviceTook, ff_frameReady>>


\* a decoded frame and a decoded audio buffer of the DecodeThread
FfFrame(i) == [pts |-> PtsOf(i)]
FfAudio(i) == [pts |-> PtsOf(i), size |-> AudioBufBytes, first |-> 0]

\* DecodeThread::run, the top of an iteration with m_seeking set: the
\* target is read, the container is moved to it and the queues are flushed
DtSeekBegin ==
    /\ dtPc = "run" /\ dt_running
    /\ ff_seeking
    /\ dt_pos' = SeekPos(ff_seekTarget)
    /\ dt_videoQueue' = <<>>
    /\ dt_audioQueue' = <<>>
    /\ dtPc' = "seek"
    /\ UNCHANGED <<d3dVars, seekArg, glVars, ffSeekVars, ffFileVars, ff_state,
                   dt_running, ff_loop, ff_endOfFile, ff_audioDevice,
                   ff_deviceTook, ff_frameReady>>

\* m_seeking = false at the end of the seek handling
DtSeekDone ==
    /\ dtPc = "seek"
    /\ ff_seeking' = FALSE
    /\ dtPc' = "read"
    /\ UNCHANGED <<d3dVars, seekArg, glVars, ff_currentPosition, ff_audioClock,
                   ff_seekTarget, ff_positionChanged, ff_startTime,
                   ffFileVars, ff_state, dt_running, dt_pos, ff_loop,
                   ff_endOfFile, ffQueueVars>>

\* the thread is at av_read_frame: after the seek handling, or at the top
\* of an iteration without a pending seek
DtAtRead == dtPc = "read" \/ (dtPc = "run" /\ dt_running /\ ~ff_seeking)

\* av_read_frame returns a packet, which is decoded
DtReadPacket ==
    /\ DtAtRead
    /\ dt_pos < StreamLen
    /\ dt_pos' = dt_pos + 1
    /\ dtPc' = IF IsVideo(ff_currentFile, dt_pos) THEN "vput" ELSE "aput"
    /\ UNCHANGED <<d3dVars, seekArg, glVars, ffSeekVars, ffFileVars, ff_state,
                   dt_running, ff_loop, ff_endOfFile, ffQueueVars>>

\* av_read_frame returns AVERROR_EOF: emit decodingFinished(); break
DtReadEof ==
    /\ DtAtRead
    /\ dt_pos = StreamLen
    /\ dtPc' = "eof"
    /\ UNCHANGED <<d3dVars, seekArg, glVars, ffSeekVars, ffFileVars, ff_state,
                   dt_running, dt_pos, ff_loop, ff_endOfFile, ffQueueVars>>

\* av_read_frame returns another error: break
DtReadError ==
    /\ DtAtRead
    /\ dtPc' = "failed"
    /\ UNCHANGED <<d3dVars, seekArg, glVars, ffSeekVars, ffFileVars, ff_state,
                   dt_running, dt_pos, ff_loop, ff_endOfFile, ffQueueVars>>

\* the wait loops of the DecodeThread on its two queues
DtVideoWait == Len(dt_videoQueue) >= FfMaxVideoQueue /\ dt_running
DtAudioWait == Len(dt_audioQueue) >= FfMaxAudioQueue /\ dt_running

DtPutVideo ==
    /\ dtPc = "vput"
    /\ ~DtVideoWait
    /\ dt_videoQueue' = IF dt_running
                        THEN Append(dt_videoQueue, FfFrame(dt_pos - 1))
                        ELSE dt_videoQueue
    /\ dtPc' = "run"
    /\ UNCHANGED <<d3dVars, seekArg, glVars, ffSeekVars, ffFileVars, ff_state,
                   dt_running, dt_pos, ff_loop, ff_endOfFile, dt_audioQueue,
                   ff_audioDevice, ff_deviceTook, ff_frameReady>>

DtPutAudio ==
    /\ dtPc = "aput"
    /\ ~DtAudioWait
    /\ dt_audioQueue' = IF dt_running
                        THEN Append(dt_audioQueue, FfAudio(dt_pos - 1))
                        ELSE dt_audioQueue
    /\ dtPc' = "run"
    /\ UNCHANGED <<d3dVars, seekArg, glVars, ffSeekVars, ffFileVars, ff_state,
                   dt_running, dt_pos, ff_loop, ff_endOfFile, dt_videoQueue,
                   ff_audioDevice, ff_deviceTook, ff_frameReady>>

\* FFmpegPlayer::pause()
FfPause ==
    /\ ff_state = "PlayingState"
    /\ ff_state' = "PausedState"
    /\ UNCHANGED <<d3dVars, seekArg, glVars, ffSeekVars, ffFileVars,
                   dt_running, dtVars, ffQueueVars>>

\* processVideo's loop: frames are taken off the queue until one is shown
\* or one is too new; q is the queue, shown the pts of the frame emitted
RECURSIVE FfTakeFrames(_, _)
FfTakeFrames(q, targetTime) ==
    IF q = <<>> THEN [q |-> q, shown |-> NoShow]
    ELSE IF Head(q).pts < targetTime - FfStaleMs
         THEN FfTakeFrames(Tail(q), targetTime)
         ELSE IF Head(q).pts > targetTime + FfEarlyMs
              THEN [q |-> Tail(q), shown |-> NoShow]
              ELSE [q |-> Tail(q), shown |-> Head(q).pts]

\* targetTime = (m_audioClock > 0) ? m_audioClock : m_currentPosition
FfTargetTime == IF ff_audioClock > 0 THEN ff_audioClock ELSE ff_currentPosition

\* FFmpegPlayer::processVideo()
FfProcessVideo ==
    /\ ff_state = "PlayingState"
    /\ LET st == FfTakeFrames(dt_videoQueue, FfTargetTime)
       IN  /\ dt_videoQueue' = st.q
           /\ ff_frameReady' = st.shown
           /\ IF st.shown # NoShow
              THEN /\ ff_currentPosition' = st.shown
                   /\ ff_positionChanged' = st.shown
              ELSE UNCHANGED <<ff_currentPosition, ff_positionChanged>>
    /\ UNCHANGED <<d3dVars, seekArg, glVars, ff_audioClock, ff_seekTarget,
                   ff_seeking, ff_startTime, ffFileVars, ff_state, dt_running,
                   dtVars, dt_audioQueue, ff_audioDevice, ff_deviceTook>>

\* processAudio's loop: every buffer is taken off the queue and written to
\* the device, which takes what it has room for; accepted is the number of
\* bytes the device accepts in this tick
RECURSIVE FfDrain(_, _)
FfDrain(st, accepted) ==
    IF st.q = <<>> THEN st
    ELSE LET ad == Head(st.q)
             written == Min(ad.size, accepted)
         IN  FfDrain([q |-> Tail(st.q),
                      took |-> IF written > 0
                               THEN Append(st.took, Taken(ad, written))
                               ELSE st.took,
                      clock |-> ad.pts + PlayedMs(ad.size)],
                     accepted - written)

\* the bytes the audio device accepts in one tick
FfWrites == {AudioBufBytes \div 2, 2 * AudioBufBytes}

\* FFmpegPlayer::processAudio()
FfProcessAudio(accepted) ==
    /\ ff_state = "PlayingState" /\ ff_audioDevice
    /\ LET st == FfDrain([q |-> dt_audioQueue, took |-> <<>>,
                          clock |-> ff_audioClock], accepted)
       IN  /\ dt_audioQueue' = st.q
           /\ ff_deviceTook' = st.took
           /\ ff_audioClock' = st.clock
    /\ UNCHANGED <<d3dVars, seekArg, glVars, ff_currentPosition, ff_seekTarget,
                   ff_seeking, ff_positionChanged, ff_startTime, ffFileVars,
                   ff_state, dt_running, dtVars, dt_videoQueue,
                   ff_audioDevice, ff_frameReady>>

\* FFmpegPlayer::onDecodingFinished: seek(0) and startDecoding() (which
\* starts nothing while m_running is still set) if looping, else stop()
\* and endOfFile
FfOnDecodingFinished ==
    /\ dtPc = "eof"
    /\ IF ff_loop /\ ff_state = "PlayingState"
       THEN /\ ff_currentPosition' = qBound(0, 0, ff_duration)
            /\ ff_audioClock' = qBound(0, 0, ff_duration)
            /\ ff_startTime' = Epoch - qBound(0, 0, ff_duration)
            /\ DtSeekTo(qBound(0, 0, ff_duration))
            /\ ff_positionChanged' = qBound(0, 0, ff_duration)
            /\ seekArg' = [seekArg EXCEPT !["FFmpegPlayer"] = 0]
            /\ dt_running' = TRUE
            /\ dtPc' = IF dt_running THEN "done" ELSE "run"
            /\ UNCHANGED <<ff_state, ff_endOfFile, ff_audioDevice>>
       ELSE /\ dt_running' = FALSE
            /\ ff_currentPosition' = 0
            /\ ff_audioClock' = 0
            /\ ff_positionChanged' = 0
            /\ ff_state' = "StoppedState"
            /\ dtPc' = "off"
            /\ ff_endOfFile' = TRUE
            /\ ff_audioDevice' = FALSE
            /\ UNCHANGED <<ff_seekTarget, ff_seeking, ff_startTime, seekArg>>
    /\ UNCHANGED <<d3dVars, glVars, ffFileVars, dt_pos, ff_loop, dt_videoQueue,
                   dt_audioQueue, ff_deviceTook, ff_frameReady>>


(***************************************************************************)
(* Seeking: the three players with and without a file, sought to points    *)
(* before the start, inside the file and past its end.                     *)
(***************************************************************************)
SeekInit == Init \/ (\E kind \in FileKinds : Loaded(kind, FALSE, 0) /\ SdlOpen)

SeekNext ==
    \/ \E seconds \in SeekInputs : Seek(seconds)
    \/ \E seconds \in SeekInputs : GlSeek(seconds)
    \/ \E seconds \in SeekInputs : FfSeek(seconds)
    \/ \E fails \in OpenFailures : GlOpenFile(fails, "av", FALSE)
    \/ \E fails \in OpenFailures : FfLoadFile(fails, "av")

SeekSpec == SeekInit /\ [][SeekNext]_vars

\* the value the specification names: s clamped to [0, duration]
Clamped(s, duration) == Min(Max(s, 0), duration)

\* C11: for every s, seek(s) stores and notifies s clamped to
\* [0, duration]: right after the call the seek target, the current
\* position and the argument of positionChanged are all
\* min(max(s, 0), duration), and a seek is pending, in the D3D11Renderer,
\* the OpenGLRenderer and the FFmpegPlayer
SeekStoresClamped ==
    [][\A s \in SeekInputs :
          /\ Seek(s) =>
                /\ m_seeking'
                /\ m_seekTarget' = Clamped(s, m_duration)
                /\ m_currentPts' = Clamped(s, m_duration)
                /\ positionChanged' = Clamped(s, m_duration)
          /\ GlSeek(s) =>
                /\ gl_seeking'
                /\ gl_seekTarget' = Clamped(s, gl_duration)
                /\ gl_currentPts' = Clamped(s, gl_duration)
                /\ gl_positionChanged' = Clamped(s, gl_duration)
          /\ FfSeek(s) =>
                /\ ff_seeking'
                /\ ff_seekTarget' = Clamped(s, ff_duration)
                /\ ff_currentPosition' = Clamped(s, ff_duration)
                /\ ff_positionChanged' = Clamped(s, ff_duration)]_vars

\* each player was sought while a file was open, one of them before the
\* start and one past the end, and holds the clamped point
SoughtOutOfRange ==
    /\ m_formatCtx /\ gl_formatCtx /\ dt_formatCtx
    /\ seekArg["D3D11Renderer"] > Duration
    /\ m_seeking /\ m_seekTarget = Duration /\ positionChanged = Duration
    /\ seekArg["OpenGLRenderer"] < 0
    /\ gl_seeking /\ gl_seekTarget = 0 /\ gl_positionChanged = 0
    /\ seekArg["FFmpegPlayer"] > Duration
    /\ ff_seeking /\ ff_seekTarget = Duration
    /\ ff_positionChanged = Duration


(***************************************************************************)
(* Opening files: each player, one at a time (the players share no state), *)
(* opens files that fail at any step or open, in every decode mode, and is *)
(* played and stopped afterwards.                                          *)
(***************************************************************************)
D3dUntouched == events = 0 /\ ctlPc = "idle"

\* the other two players were never called
GlUntouched ==
    gl_currentFile = "" /\ ~gl_errorOccurred /\ gl_decodeMode = "Auto"
FfUntouched == ff_state = "StoppedState" /\ ff_currentFile = ""

OpenNext ==
    \/ PeersConstructed /\ CloseBegin
    \/ \E fails \in OpenFailures, kind \in FileKinds, hw \in BOOLEAN :
          PeersConstructed /\ OpenFile(fails, kind, hw)
    \/ \E mode \in DecodeModes : PeersConstructed /\ setDecodeMode(mode)
    \/ PeersConstructed /\ Play
    \/ PeersConstructed /\ StopBegin
    \/ PeersConstructed /\ StopJoin
    \/ PeersConstructed /\ DemuxTop
    \/ PeersConstructed /\ DemuxReadPacket
    \/ PeersConstructed /\ DemuxPutVideo
    \/ PeersConstructed /\ DemuxPutAudio
    \/ PeersConstructed /\ VdecExit
    \/ PeersConstructed /\ AdecExit
    \/ \E fails \in OpenFailures, kind \in FileKinds, hw \in BOOLEAN :
          D3dUntouched /\ FfUntouched /\ GlOpenFile(fails, kind, hw)
    \/ \E mode \in DecodeModes :
          D3dUntouched /\ FfUntouched /\ GlSetDecodeMode(mode)
    \/ \E fails \in OpenFailures, kind \in FileKinds :
          D3dUntouched /\ GlUntouched /\ FfLoadFile(fails, kind)
    \/ \E fails \in OpenFailures :
          D3dUntouched /\ GlUntouched /\ FfPlay(fails)
    \/ D3dUntouched /\ GlUntouched /\ FfStop

OpenSpec == Init /\ [][OpenNext]_vars

\* C12: when openFile fails at any step it emits errorOccurred and no
\* fileLoaded, and leaves nothing of the failed or of the previous file
\* behind (no container, no decoder context, duration 0, no remembered
\* current file), so that a later play() cannot start decoding; in the
\* D3D11Renderer and in the FFmpegPlayer
FailedOpenLeavesNothing ==
    /\ (ctlPc = "idle" /\ errorOccurred) =>
          /\ ~fileLoaded
          /\ ~m_formatCtx /\ ~m_hwDeviceCtx /\ m_duration = 0
          /\ m_currentFile = ""
          /\ demuxPc \in {"off", "done"}
    /\ ff_errorOccurred =>
          /\ ~ff_fileLoaded
          /\ ~dt_formatCtx /\ ff_duration = 0
          /\ ff_currentFile = ""
          /\ ~(dt_running /\ dt_formatCtx)

\* C13: when hardware decoder initialisation fails during openFile, in
\* Auto mode the open continues with software decoding and succeeds iff
\* the software decoder opens; in Hardware mode the open fails with
\* errorOccurred; in Software mode hardware initialisation is never
\* attempted (whatever its outcome would be); in the D3D11Renderer and in
\* the OpenGLRenderer
HwInitFailureByMode ==
    [][\A fails \in {"avcodec_open2", "none"}, kind \in {"av", "v"} :
          /\ OpenFile(fails, kind, FALSE) =>
                /\ m_decodeMode = "Auto" =>
                      /\ hwInitCalled' /\ ~m_hwDeviceCtx'
                      /\ fileLoaded' = (fails = "none")
                      /\ m_formatCtx' = (fails = "none")
                      /\ errorOccurred' = (fails # "none")
                /\ m_decodeMode = "Hardware" =>
                      /\ hwInitCalled'
                      /\ errorOccurred' /\ ~fileLoaded' /\ ~m_formatCtx'
                /\ m_decodeMode = "Software" =>
                      /\ ~hwInitCalled' /\ ~m_hwDeviceCtx'
                      /\ fileLoaded' = (fails = "none")
          /\ \A hw \in BOOLEAN :
                (OpenFile(fails, kind, hw) /\ m_decodeMode = "Software") =>
                   ~hwInitCalled' /\ ~m_hwDeviceCtx'
          /\ GlOpenFile(fails, kind, FALSE) =>
                /\ gl_decodeMode = "Auto" =>
                      /\ gl_hwInitCalled' /\ ~gl_hwDeviceCtx'
                      /\ gl_fileLoaded' = (fails = "none")
                      /\ gl_formatCtx' = (fails = "none")
                      /\ gl_errorOccurred' = (fails # "none")
                /\ gl_decodeMode = "Hardware" =>
                      /\ gl_hwInitCalled'
                      /\ gl_errorOccurred' /\ ~gl_fileLoaded'
                      /\ ~gl_formatCtx'
                /\ gl_decodeMode = "Software" =>
                      /\ ~gl_hwInitCalled' /\ ~gl_hwDeviceCtx'
                      /\ gl_fileLoaded' = (fails = "none")
          /\ \A hw \in BOOLEAN :
                (GlOpenFile(fails, kind, hw) /\ gl_decodeMode = "Software") =>
                   ~gl_hwInitCalled' /\ ~gl_hwDeviceCtx']_vars

\* in Auto mode a file with video was opened with the software decoder
\* after the hardware decoder failed to initialise
SoftwareFallback ==
    /\ m_decodeMode = "Auto" /\ ctlPc = "idle"
    /\ hwInitCalled /\ ~m_hwDeviceCtx
    /\ fileLoaded /\ m_videoCodecCtx /\ ~errorOccurred


(***************************************************************************)
(* Read errors: a playback of the D3D11Renderer, or one of the             *)
(* FFmpegPlayer, in which av_read_frame may fail at any packet.  Every     *)
(* thread keeps running and the timers keep firing.                        *)
(***************************************************************************)
ReadInit ==
    \/ LoopInit
    \/ /\ D3dConstructed /\ GlConstructed
       /\ ff_loop \in BOOLEAN
       /\ \E kind \in FileKinds : FfStopped(kind, Duration)

DtSteps == DtReadPacket \/ DtReadEof \/ DtPutVideo \/ DtPutAudio

ReadNext ==
    \/ LoopNext
    \/ DemuxReadError
    \/ \E fails \in OpenFailures : ~m_formatCtx /\ FfPlay(fails)
    \/ ~m_formatCtx /\ DtSteps
    \/ ~m_formatCtx /\ DtReadError
    \/ ~m_formatCtx /\ FfOnDecodingFinished
    \/ ~m_formatCtx /\ FfProcessVideo
    \/ \E accepted \in FfWrites : ~m_formatCtx /\ FfProcessAudio(accepted)

ReadSpec ==
    /\ ReadInit
    /\ [][ReadNext]_vars
    /\ WF_vars(DemuxSteps)
    /\ WF_vars(VdecSteps)
    /\ WF_vars(AdecSteps)
    /\ WF_vars(OnRenderTimer)
    /\ WF_vars(PresentSteps)
    /\ WF_vars(processAudio(MaxAudioQueue))
    /\ WF_vars(TimePasses)
    /\ WF_vars(DevicePlays)
    /\ WF_vars(DtSteps)
    /\ WF_vars(FfOnDecodingFinished)
    /\ WF_vars(FfProcessVideo)
    /\ WF_vars(FfProcessAudio(2 * AudioBufBytes))

\* C14: when av_read_frame returns an error other than end-of-stream the
\* demux loop is left for the session: from then on no packet is read or
\* put into a packet queue, the container is not rewound even with loop
\* set, and endOfFile is not emitted; in the D3D11Renderer and in the
\* DecodeThread of the FFmpegPlayer
ReadErrorEndsDemux ==
    [][/\ readFailed' => (demuxPc' = "done" /\ ~eofEmitted')
       /\ (readFailed /\ readFailed') =>
             /\ avPos' = avPos
             /\ Len(m_videoPacketQueue') <= Len(m_videoPacketQueue)
             /\ Len(m_audioPacketQueue') <= Len(m_audioPacketQueue)
             /\ wrapPending' => wrapPending
       /\ dtPc' = "failed" => ~ff_endOfFile'
       /\ dtPc = "failed" =>
             /\ dtPc' = "failed"
             /\ dt_pos' = dt_pos
             /\ seekArg' = seekArg]_vars

\* a read error in the middle of the file ended the demux loop of a
\* looping playback
ReadFailedMidStream ==
    /\ readFailed /\ m_loop /\ m_running /\ m_playing
    /\ demuxPc = "done"
    /\ 0 < avPos /\ avPos < StreamLen

\* C15: a fatal read error in mid-stream reaches the caller: whenever the
\* demux or decode loop is left because of a read error other than
\* end-of-stream, errorOccurred is eventually emitted
ReadErrorReported ==
    /\ readFailed ~> errorOccurred
    /\ (dtPc = "failed") ~> ff_errorOccurred


(***************************************************************************)
(* A stalled audio side: a looping playback of a file with both streams    *)
(* whose audio decode thread takes nothing, while the demux thread, the    *)
(* video decode thread and the render timer keep running.                  *)
(***************************************************************************)
StallInit == Loaded("av", FALSE, MaxEvents - 1) /\ SdlOpen

StallNext ==
    \/ DemuxTop \/ DemuxReadPacket \/ DemuxLoopWrap
    \/ DemuxPutVideo \/ DemuxPutAudio
    \/ VdecSteps
    \/ OnRenderTimer \/ PresentSteps \/ TimePasses

StallSpec ==
    /\ StallInit
    /\ [][StallNext]_vars
    /\ WF_vars(DemuxSteps)
    /\ WF_vars(VdecSteps)
    /\ WF_vars(OnRenderTimer)
    /\ WF_vars(PresentSteps)
    /\ WF_vars(TimePasses)

\* C16: a stalled audio side never blocks video: while running is set and
\* no seek is pending, every video packet of the stream that the demux
\* thread has not passed yet is eventually received by the video decode
\* thread, even if the audio decode thread consumes nothing
VideoNotBlockedByAudio ==
    \A i \in 0..(StreamLen - 1) :
        (m_running /\ ~m_seeking /\ IsVideo(fileKind, i) /\ avPos <= i)
           ~> (vdecPc = "copy" /\ vdecItem.pts = PtsOf(i))

\* C17: stop() clears m_running and wakes every blocked worker (a worker
\* that has not ended can take a step while stop() waits for it), and
\* once stop() has returned the three worker threads have left their
\* loops and the four queues are empty and stay empty until the next
\* play()
StopLeavesNothing ==
    /\ ctlPc = "stopping" =>
          /\ ~m_running
          /\ demuxPc \notin {"off", "done"} => ENABLED Demux
          /\ vdecPc \notin {"off", "done"} => ENABLED VideoDecode
          /\ adecPc \notin {"off", "done"} => ENABLED AudioDecode
    /\ (ctlPc = "idle" /\ ~m_running) =>
          /\ demuxPc = "off" /\ vdecPc = "off" /\ adecPc = "off"
          /\ m_videoPacketQueue = <<>> /\ m_audioPacketQueue = <<>>
          /\ m_frameQueue = <<>> /\ m_audioQueue = <<>>

\* stop() has returned from a playback that had read packets
StoppedAfterPlayback ==
    /\ ctlPc = "idle" /\ ~m_running /\ ~m_playing
    /\ m_formatCtx /\ avPos > 1
    /\ positionChanged = 0


\* C18: frames are presented in the order they were enqueued.  The frame
\* queue changes in three ways only: the decoder appends its frame at the
\* tail, a tick removes frames from the head, or the queue is cleared.  The
\* frame a tick presents is a frame of the queue it found, every frame in
\* front of it is removed with it (the catch-up drops), and the frames
\* behind it stay queued in their order; so a frame enqueued later is never
\* presented before a frame enqueued earlier.
PresentedInEnqueueOrder ==
    [][/\ (ctlPc = "idle" /\ ctlPc' = "present") =>
             \E k \in 1..Len(m_frameQueue) :
                /\ ctlFrame' = m_frameQueue[k]
                /\ k = lastDropped' + 1
                /\ m_frameQueue' =
                      SubSeq(m_frameQueue, k + 1, Len(m_frameQueue))
       /\ (m_frameQueue' # m_frameQueue
             /\ ~(ctlPc = "idle" /\ ctlPc' = "present")) =>
             \/ m_frameQueue' = <<>>
             \/ /\ vdecPc = "fput"
                /\ m_frameQueue' = Append(m_frameQueue, vdecItem)]_vars

\* a tick has dropped a late frame and presents the next one while a frame
\* the decoder has enqueued waits behind it
DroppedWithFramesBehind ==
    /\ ctlPc = "present" /\ lastDropped >= 1
    /\ \E j \in 1..Len(m_frameQueue) : m_frameQueue[j].pts = PtsOf(3)

(***************************************************************************)
(* OpenGLRenderer: playback.  One decode thread reads the container,       *)
(* decodes each packet and enqueues the frame or the audio buffer; the     *)
(* render timer and the audio timer of the GUI thread take them.           *)
(***************************************************************************)
\* the audio queue holds at most this many buffers (100 in the source)
GlMaxAudioQueue == 2
\* a frame this far behind the audio clock is skipped (0.1 s)
GlLateMs == 100

GlFrame(i) == [pts |-> PtsOf(i)]
\* a decoded audio buffer: its bytes are size bytes of the decoder's
\* output, starting at byte first
GlAudio(i) == [pts |-> PtsOf(i), size |-> AudioBufBytes, first |-> 0]

\* OpenGLRenderer::play()
GlPlay ==
    /\ gl_formatCtx
    /\ IF gl_decodeThread
       THEN UNCHANGED <<gl_running, glThreadVars>>
       ELSE /\ gl_running' = TRUE
            /\ gl_decodeThread' = TRUE
            /\ glPc' = "top"
            /\ UNCHANGED <<glItem, gl_pos>>
    /\ gl_audioDevice' = TRUE
    /\ gl_playing' = TRUE
    /\ gl_paused' = FALSE
    /\ UNCHANGED <<d3dVars, seekArg, glSeekVars, glFileVars, gl_decodeMode,
                   glQueueVars, gl_loop, gl_deviceTook, gl_endOfFile, ffVars>>

\* OpenGLRenderer::pause()
GlPause ==
    /\ gl_paused' = TRUE
    /\ UNCHANGED <<d3dVars, seekArg, glSeekVars, glFileVars, gl_decodeMode,
                   gl_playing, gl_running, glThreadVars, glQueueVars,
                   gl_loop, gl_audioDevice, gl_deviceTook, gl_endOfFile,
                   ffVars>>

\* OpenGLRenderer::setLoop(loop)
GlSetLoop(loop) ==
    /\ gl_loop' = loop
    /\ UNCHANGED <<d3dVars, seekArg, glSeekVars, glFileVars, gl_decodeMode,
                   gl_playing, gl_running, glThreadVars, glQueueVars,
                   gl_paused, gl_audioDevice, gl_deviceTook, gl_endOfFile,
                   ffVars>>

\* OpenGLRenderer::stop(): the decode thread sees m_running false at its
\* next test of the flag and ends before wait(1000) returns (a buffer it
\* holds for the audio queue is still enqueued, a frame is
\* not); the frame queue is cleared, the audio queue and the QThread
\* object are kept
GlStop ==
    /\ gl_playing' = FALSE
    /\ gl_paused' = FALSE
    /\ gl_currentPts' = 0
    /\ gl_audioClock' = 0
    /\ gl_running' = FALSE
    /\ glPc' = IF glPc = "off" THEN "off" ELSE "done"
    /\ glItem' = NoPkt
    /\ gl_audioQueue' =
          IF glPc = "aput" /\ Len(gl_audioQueue) < GlMaxAudioQueue
          THEN Append(gl_audioQueue, GlAudio(glItem))
          ELSE gl_audioQueue
    /\ gl_audioDevice' = FALSE
    /\ gl_frameQueue' = <<>>
    /\ gl_positionChanged' = 0
    /\ UNCHANGED <<d3dVars, seekArg, gl_seekTarget, gl_seeking, glFileVars,
                   gl_decodeMode, gl_decodeThread, gl_pos, gl_loop,
                   gl_deviceTook, gl_endOfFile, ffVars>>

\* decodeThread: while (m_running) holds; a pending seek is served
GlDecodeTop ==
    /\ glPc = "top"
    /\ gl_running
    /\ glPc' = "read"
    /\ IF gl_seeking
       THEN /\ gl_pos' = SeekPos(gl_seekTarget)
            /\ gl_frameQueue' = <<>> /\ gl_audioQueue' = <<>>
            /\ gl_seeking' = FALSE
       ELSE UNCHANGED <<gl_pos, glQueueVars, gl_seeking>>
    /\ UNCHANGED <<d3dVars, seekArg, gl_seekTarget, gl_currentPts,
                   gl_audioClock, gl_positionChanged, glFileVars,
                   gl_decodeMode, gl_playing, gl_running, gl_decodeThread,
                   glItem, glPlayVars, ffVars>>

\* av_read_frame returns a packet, the packet is decoded
GlReadPacket ==
    /\ glPc = "read"
    /\ gl_pos < StreamLen
    /\ gl_pos' = gl_pos + 1
    /\ glItem' = gl_pos
    /\ glPc' = IF IsVideo(gl_currentFile, gl_pos) THEN "vput" ELSE "aput"
    /\ UNCHANGED <<d3dVars, seekArg, glSeekVars, glFileVars, gl_decodeMode,
                   gl_playing, gl_running, gl_decodeThread, glQueueVars,
                   glPlayVars, ffVars>>

\* av_read_frame returns AVERROR_EOF: rewind if m_loop, else endOfFile
GlReadEof ==
    /\ glPc = "read"
    /\ gl_pos = StreamLen
    /\ IF gl_loop
       THEN gl_pos' = 0 /\ glPc' = "top" /\ UNCHANGED gl_endOfFile
       ELSE gl_endOfFile' = TRUE /\ glPc' = "done" /\ UNCHANGED gl_pos
    /\ UNCHANGED <<d3dVars, seekArg, glSeekVars, glFileVars, gl_decodeMode,
                   gl_playing, gl_running, gl_decodeThread, glItem,
                   glQueueVars, gl_loop, gl_paused, gl_audioDevice,
                   gl_deviceTook, ffVars>>

\* av_read_frame returns another error: the loop ends
GlReadError ==
    /\ glPc = "read"
    /\ glPc' = "done"
    /\ UNCHANGED <<d3dVars, seekArg, glSeekVars, glFileVars, gl_decodeMode,
                   gl_playing, gl_running, gl_decodeThread, glItem, gl_pos,
                   glQueueVars, glPlayVars, ffVars>>

\* the decode thread's wait loop on the frame queue
GlFrameWait == Len(gl_frameQueue) >= MAX_FRAME_QUEUE /\ gl_running

GlPutVideo ==
    /\ glPc = "vput"
    /\ ~GlFrameWait
    /\ gl_frameQueue' = IF gl_running
                        THEN Append(gl_frameQueue, GlFrame(glItem))
                        ELSE gl_frameQueue
    /\ glItem' = NoPkt
    /\ glPc' = "top"
    /\ UNCHANGED <<d3dVars, seekArg, glSeekVars, glFileVars, gl_decodeMode,
                   gl_playing, gl_running, gl_decodeThread, gl_pos,
                   gl_audioQueue, glPlayVars, ffVars>>

\* if (m_audioQueue.size() < 100) m_audioQueue.enqueue(ad)
GlPutAudio ==
    /\ glPc = "aput"
    /\ gl_audioQueue' = IF Len(gl_audioQueue) < GlMaxAudioQueue
                        THEN Append(gl_audioQueue, GlAudio(glItem))
                        ELSE gl_audioQueue
    /\ glItem' = NoPkt
    /\ glPc' = "top"
    /\ UNCHANGED <<d3dVars, seekArg, glSeekVars, glFileVars, gl_decodeMode,
                   gl_playing, gl_running, gl_decodeThread, gl_pos,
                   gl_frameQueue, glPlayVars, ffVars>>

\* onRenderTimer's loop: the number of frames at the head of the queue that
\* are more than GlLateMs behind the audio clock
RECURSIVE GlSkipLate(_, _)
GlSkipLate(q, clock) ==
    IF q # <<>> /\ Head(q).pts < clock - GlLateMs
    THEN 1 + GlSkipLate(Tail(q), clock)
    ELSE 0

\* OpenGLRenderer::onRenderTimer()
GlOnRenderTimer ==
    /\ gl_playing /\ ~gl_paused
    /\ gl_frameQueue # <<>>
    /\ LET late == GlSkipLate(gl_frameQueue, gl_audioClock)
       IN  IF late < Len(gl_frameQueue)
           THEN /\ gl_frameQueue' = SubSeq(gl_frameQueue, late + 2,
                                           Len(gl_frameQueue))
                /\ gl_currentPts' = gl_frameQueue[late + 1].pts
                /\ gl_positionChanged' = gl_frameQueue[late + 1].pts
           ELSE /\ gl_frameQueue' = <<>>
                /\ UNCHANGED <<gl_currentPts, gl_positionChanged>>
    /\ UNCHANGED <<d3dVars, seekArg, gl_seekTarget, gl_seeking, gl_audioClock,
                   glFileVars, gl_decodeMode, gl_playing, gl_running,
                   glThreadVars, gl_audioQueue, glPlayVars, ffVars>>

\* processAudio's loop (ad.data.remove(0, written) keeps the bytes behind
\* the written ones); st holds the audio queue, the byte ranges the
\* device took and the audio clock, accepted is the number of bytes the
\* device accepts in this tick (write returns less than offered, or
\* bytesFree() is 0, once they are used up)
RECURSIVE GlDrain(_, _)
GlDrain(st, accepted) ==
    IF st.q = <<>> \/ accepted = 0
    THEN st
    ELSE LET ad == Head(st.q)
             written == Min(ad.size, accepted)
         IN  GlDrain([q |-> IF written = ad.size THEN Tail(st.q)
                            ELSE <<Remainder(ad, written)>> \o Tail(st.q),
                      took |-> Append(st.took, Taken(ad, written)),
                      clock |-> ad.pts + PlayedMs(written)],
                     accepted - written)

\* OpenGLRenderer::processAudio()
GlProcessAudio(accepted) ==
    /\ gl_audioDevice /\ gl_playing /\ ~gl_paused
    /\ LET st == GlDrain([q |-> gl_audioQueue, took |-> <<>>,
                          clock |-> gl_audioClock], accepted)
       IN  /\ gl_audioQueue' = st.q
           /\ gl_deviceTook' = st.took
           /\ gl_audioClock' = st.clock
    /\ UNCHANGED <<d3dVars, seekArg, gl_seekTarget, gl_seeking, gl_currentPts,
                   gl_positionChanged, glFileVars, gl_decodeMode, gl_playing,
                   gl_running, glThreadVars, gl_frameQueue, gl_loop,
                   gl_paused, gl_audioDevice, gl_endOfFile, ffVars>>

GlDecode ==
    \/ GlDecodeTop \/ GlReadPacket \/ GlReadEof \/ GlReadError
    \/ GlPutVideo \/ GlPutAudio

(***************************************************************************)
(* GlSpec: an OpenGLRenderer opens a file with both streams, plays,        *)
(* pauses, seeks and stops it while its decode thread and its two timers   *)
(* run.                                                                    *)
(***************************************************************************)
GlNext ==
    \/ \E fails \in {"none", "avformat_open_input"} :
          GlOpenFile(fails, "av", FALSE)
    \/ GlPlay \/ GlPause \/ GlStop
    \/ \E seconds \in SeekInputs : GlSeek(seconds)
    \/ \E loop \in BOOLEAN : GlSetLoop(loop)
    \/ GlDecode
    \/ GlOnRenderTimer
    \/ \E accepted \in SinkWrites : GlProcessAudio(accepted)

GlSpec == Init /\ [][GlNext]_vars

\* C19: while running is true and no seek is active, a producer that
\* leaves its enqueue step has enqueued its unit: the demux thread its
\* packet, the video and the audio decoder of the D3D11Renderer their frame
\* and their buffer, the decode thread of the OpenGLRenderer its frame and
\* its audio buffer.
ProducersNeverDrop ==
    [][/\ (demuxPc = "vput" /\ demuxPc' = "top" /\ m_running /\ ~m_seeking)
             => m_videoPacketQueue' = Append(m_videoPacketQueue, demuxPkt)
       /\ (demuxPc = "aput" /\ demuxPc' = "top" /\ m_running /\ ~m_seeking)
             => m_audioPacketQueue' = Append(m_audioPacketQueue, demuxPkt)
       /\ (vdecPc = "fput" /\ vdecPc' = "take" /\ m_running /\ ~m_seeking)
             => m_frameQueue' = Append(m_frameQueue, vdecItem)
       /\ (adecPc = "aput" /\ adecPc' = "take" /\ m_running /\ ~m_seeking)
             => m_audioQueue' = Append(m_audioQueue, adecItem)
       /\ (glPc = "vput" /\ glPc' = "top" /\ gl_running /\ ~gl_seeking)
             => gl_frameQueue' = Append(gl_frameQueue, GlFrame(glItem))
       /\ (glPc = "aput" /\ glPc' = "top" /\ gl_running /\ ~gl_seeking)
             => gl_audioQueue' = Append(gl_audioQueue, GlAudio(glItem))]_vars

(***************************************************************************)
(* WriteSpec: the audio tick of each renderer on a device that takes any   *)
(* part of what it is offered.  Either the D3D11Renderer plays an          *)
(* audio-only file (in the build with SDL3 or in the build with the        *)
(* QAudioSink), or the OpenGLRenderer opens and plays a file with both     *)
(* streams.                                                                *)
(***************************************************************************)
WriteInit == AudioInit \/ Init

WriteNext ==
    \/ DemuxTop \/ DemuxReadPacket \/ DemuxLoopWrap \/ DemuxPutAudio
    \/ AdecTake \/ AdecFlush \/ AdecPut
    \/ \E puts \in 0..MaxAudioQueue : processAudio(puts)
    \/ \E accepted \in SinkWrites, processed \in SinkProcessed :
          processAudioSink(accepted, processed)
    \/ DevicePlays
    \/ ~m_formatCtx /\ GlOpenFile("none", "av", FALSE)
    \/ ~m_formatCtx /\ GlPlay
    \/ ~m_formatCtx /\ GlDecodeTop
    \/ ~m_formatCtx /\ GlReadPacket
    \/ ~m_formatCtx /\ GlReadEof
    \/ ~m_formatCtx /\ GlPutVideo
    \/ ~m_formatCtx /\ GlPutAudio
    \/ ~m_formatCtx /\ GlOnRenderTimer
    \/ \E accepted \in SinkWrites : ~m_formatCtx /\ GlProcessAudio(accepted)

WriteSpec == WriteInit /\ [][WriteNext]_vars

\* the byte ranges the buffers of an audio queue hold, in queue order
Ranges(q) == [i \in 1..Len(q) |-> Taken(q[i], q[i].size)]

\* a sequence of byte ranges as a sequence of bytes: ranges that continue
\* each other in the same buffer are one range
RECURSIVE Joined(_)
Joined(rs) ==
    IF Len(rs) < 2 THEN rs
    ELSE IF rs[1].pts = rs[2].pts /\ rs[1].first + rs[1].size = rs[2].first
         THEN Joined(<<[rs[1] EXCEPT !.size = @ + rs[2].size]>>
                     \o Tail(Tail(rs)))
         ELSE <<rs[1]>> \o Joined(Tail(rs))

\* the bytes an audio tick handed to the device (took), followed by the
\* bytes it left in the queue (after), are the bytes it found in the queue
\* (before), and the first byte handed over is the first byte of the head
HandsOverInOrder(before, took, after) ==
    /\ Joined(took \o Ranges(after)) = Joined(Ranges(before))
    /\ took # <<>> =>
          /\ took[1].pts = Head(before).pts
          /\ took[1].first = Head(before).first
    /\ \A i \in 1..Len(took) : took[i].size > 0

\* C20: an audio tick of the D3D11Renderer (SDL stream or QAudioSink) and
\* of the OpenGLRenderer hands the bytes of the audio queue to the device
\* from the head on and leaves the rest queued in order: what the device
\* did not take of the head buffer stays at the head, in front of the later
\* buffers, so the bytes handed to the device over the ticks are the bytes
\* of the enqueued buffers in order, none dropped, duplicated or reordered.
PartialWriteKeepsOrder ==
    [][/\ \A puts \in 0..MaxAudioQueue :
             processAudio(puts) =>
                HandsOverInOrder(m_audioQueue, SdlTick(puts).took,
                                 m_audioQueue')
       /\ \A accepted \in SinkWrites, processed \in SinkProcessed :
             processAudioSink(accepted, processed) =>
                HandsOverInOrder(m_audioQueue, SinkTick(accepted).took,
                                 m_audioQueue')
       /\ \A accepted \in SinkWrites :
             GlProcessAudio(accepted) =>
                HandsOverInOrder(gl_audioQueue, gl_deviceTook',
                                 gl_audioQueue')]_vars

\* the QAudioSink took a part of a buffer: the rest of it is at the head of
\* the audio queue, in front of a later buffer
RemainderAtHead ==
    /\ m_audioDevice
    /\ Len(m_audioQueue) >= 2
    /\ Head(m_audioQueue).first > 0
    /\ Head(m_audioQueue).first + Head(m_audioQueue).size = AudioBufBytes

(***************************************************************************)
(* The accesses to the clock state: the fields a section of code reads or  *)
(* writes and the mutexes it holds while it does.                          *)
(***************************************************************************)
ClockFields ==
    {"m_audioClockValid", "m_videoClockValid", "m_audioStartPts",
     "m_videoStartPts", "m_avSyncOffset", "m_audioClock",
     "m_audioWrittenBytes"}
\* the clock fields declared std::atomic: none (the atomics of the class
\* are m_running and m_seeking, m_audioClock is a double)
AtomicClockFields == {}

\* videoDecodeThread on a flush marker: the locker of m_frameMutex has left
\* scope when the clock is reset
VdecFlushAccess ==
    [fields |-> {"m_videoClockValid", "m_videoStartPts"}, locks |-> {}]
\* audioDecodeThread on a flush marker: the locker of m_audioMutex has left
\* scope when the clock is reset
AdecFlushAccess ==
    [fields |-> {"m_audioClockValid", "m_audioStartPts", "m_audioClock",
                 "m_audioWrittenBytes"},
     locks |-> {}]
\* onRenderTimer: inside QMutexLocker locker(&m_frameMutex)
OnRenderTimerAccess ==
    [fields |-> ClockFields \ {"m_audioWrittenBytes"},
     locks |-> {"m_frameMutex"}]
\* processAudio: inside QMutexLocker locker(&m_audioMutex)
ProcessAudioAccess ==
    [fields |-> ClockFields, locks |-> {"m_audioMutex"}]
\* play(), stop() and seek() reset the clock state without a lock
ResetAccess == [fields |-> ClockFields, locks |-> {}]

\* the accesses a decode thread is about to make
DecodeAccesses ==
    {a \in {[on |-> vdecPc = "flush", access |-> VdecFlushAccess],
            [on |-> adecPc = "flush", access |-> AdecFlushAccess]} : a.on}
\* the accesses the control thread can make now
ControlAccesses ==
    {a \in {[on |-> ENABLED OnRenderTimer, access |-> OnRenderTimerAccess],
            [on |-> \E puts \in 0..MaxAudioQueue : ENABLED processAudio(puts),
             access |-> ProcessAudioAccess],
            [on |-> (ENABLED Play) \/ (ENABLED StopBegin)
                       \/ (\E seconds \in SeekInputs : ENABLED Seek(seconds)),
             access |-> ResetAccess]} : a.on}

\* C21: whenever a decode thread is about to access a clock field that the
\* control thread can access at the same time, the field is atomic or the
\* two accesses are made under a common mutex.
ClockAccessesGuarded ==
    \A d \in DecodeAccesses, c \in ControlAccesses :
       (d.access.fields \cap c.access.fields) \ AtomicClockFields # {}
          => d.access.locks \cap c.access.locks # {}

\* C22: the demuxer that observes a pending seek repositions the container
\* on the target, flushes both packet queues and leaves one flush marker in
\* each of them; the seek flag is cleared by the demuxer only, after that
\* and before it reads the next packet.
SeekServedInOrder ==
    [][/\ (demuxPc = "top" /\ demuxPc' = "seek") =>
             /\ m_seeking /\ m_seeking'
             /\ avPos' = SeekPos(m_seekTarget)
             /\ m_videoPacketQueue' = <<FLUSH>>
             /\ m_audioPacketQueue' = <<FLUSH>>
       /\ (m_seeking /\ ~m_seeking') =>
             /\ demuxPc = "seek" /\ demuxPc' = "read"
             /\ demuxPkt' = NoPkt]_vars

FlushMarkerResetsStage ==
    [][/\ (vdecPc = "take" /\ vdecPc' = "flush") =>
             /\ Head(m_videoPacketQueue) = FLUSH
             /\ vdecItem' = NoFrame /\ UNCHANGED m_frameQueue
       /\ (vdecPc = "flush" /\ vdecPc' # "flush") =>
             /\ vdecPc' = "take" /\ vdecItem' = NoFrame
             /\ m_frameQueue' = <<>>
             /\ ~m_videoClockValid'
       /\ (adecPc = "take" /\ adecPc' = "flush") =>
             /\ Head(m_audioPacketQueue) = FLUSH
             /\ adecItem' = NoAudio /\ UNCHANGED m_audioQueue
       /\ (adecPc = "flush" /\ adecPc' # "flush") =>
             /\ adecPc' = "take" /\ adecItem' = NoAudio
             /\ m_audioQueue' = <<>>
             /\ ~m_audioClockValid'
             /\ m_audioWrittenBytes' = 0]_vars

\* the video decoder has dequeued a flush marker while frames are queued
\* and the video clock is valid
FlushWithFramesQueued ==
    /\ vdecPc = "flush"
    /\ m_frameQueue # <<>>
    /\ m_videoClockValid

\* C25: the video decoder applies the demuxer's cancel rule at its enqueue:
\* once m_seeking is set or m_running is cleared it is not held by the full
\* frame queue, and the step that leaves the enqueue leaves the frame queue
\* as it was and drops the frame.
VdecAbandonsEnqueue ==
    /\ []((vdecPc = "fput" /\ (m_seeking \/ ~m_running))
             => ENABLED VideoDecode)
    /\ [][(vdecPc = "fput" /\ vdecPc' # "fput"
             /\ (m_seeking \/ ~m_running)) =>
             /\ UNCHANGED m_frameQueue
             /\ vdecItem' = NoFrame]_vars

(***************************************************************************)
(* FillSpec: an audio-only file is played in the build with SDL3 while the *)
(* device plays what it has buffered by whole buffers or by half a buffer, *)
(* so that SDL_GetAudioStreamQueued can return any amount.                 *)
(***************************************************************************)
\* the device consumes half a buffer's worth of the bytes it has buffered
DevicePlaysPart ==
    /\ m_sdlAudioStream
    /\ sdlQueued > 0
    /\ sdlQueued' = sdlQueued - Min(AudioBufBytes \div 2, sdlQueued)
    /\ UNCHANGED <<notifyVars, peerVars, fileVars, avPos, stateVars, avVars, audioClockVars,
                   timerVars, packetQueues, m_frameQueue, m_audioQueue,
                   demuxVars, vdecVars, adecVars, ctlVars, m_d3dMutex,
                   m_sdlAudioStream, m_audioDevice, toldVars>>

FillInit == Loaded("a", FALSE, 0) /\ SdlOpen

FillNext ==
    \/ DemuxTop \/ DemuxReadPacket \/ DemuxLoopWrap \/ DemuxPutAudio
    \/ AdecTake \/ AdecFlush \/ AdecPut
    \/ \E puts \in 0..MaxAudioQueue : processAudio(puts)
    \/ DevicePlays \/ DevicePlaysPart

FillSpec == FillInit /\ [][FillNext]_vars

\* C26: the audio tick never overfills the device: the bytes queued in the
\* SDL stream stay at or below the target occupancy of 200 ms.
DeviceWithinTarget == m_sdlAudioStream => sdlQueued <= SdlMaxQueued

(***************************************************************************)
(* ClockSpec: the audio clock of an audio-only playback on SDL.  The flush *)
(* of the audio decoder clears the audio queue under m_audioMutex and then *)
(* writes the four clock fields without it, so an audio tick that found    *)
(* the queue empty may run while they are written: it read the validity    *)
(* flag before the flush cleared it and stores a clock computed from the   *)
(* start and the byte count it read, each before or after the flush wrote  *)
(* it.  The user pauses, resumes and seeks.                                *)
(***************************************************************************)
\* the tick that can run beside the flush: playing on SDL with a valid clock
TickBesideFlush == m_playing /\ ~m_paused /\ m_sdlAudioStream /\ m_audioClockValid

\* the values m_audioClock can hold once the flush and that tick are over
FlushClockOutcomes ==
    {0} \cup
    IF TickBesideFlush
    THEN {AudioClockOf(start, written, sdlQueued) :
              start \in {m_audioStartPts, 0}, written \in {m_audioWrittenBytes, 0}}
    ELSE {}

AdecFlushRacing ==
    /\ adecPc = "flush"
    /\ m_audioQueue' = <<>>
    /\ m_audioClockValid' = FALSE
    /\ m_audioStartPts' = 0
    /\ m_audioClock' \in FlushClockOutcomes
    /\ m_audioWrittenBytes' = 0
    /\ adecPc' = "take"
    /\ UNCHANGED <<notifyVars, peerVars, fileVars, avPos, stateVars, m_videoClockValid,
                   m_videoStartPts, m_avSyncOffset, timerVars, packetQueues,
                   m_frameQueue, demuxVars, vdecVars, adecItem, ctlVars,
                   m_d3dMutex, deviceVars, toldVars>>

\* the position the user seeks to
ClockSeeks == {2 * PktMs}

ClockInit == Loaded("a", FALSE, 0) /\ SdlOpen

ClockNext ==
    \/ DemuxTop \/ DemuxSeekDone \/ DemuxReadPacket \/ DemuxLoopWrap \/ DemuxPutAudio
    \/ AdecTake \/ AdecFlushRacing \/ AdecPut
    \/ \E puts \in 0..MaxAudioQueue : processAudio(puts)
    \/ DevicePlays \/ DevicePlaysPart
    \/ Pause \/ Play
    \/ \E seconds \in ClockSeeks : Seek(seconds)

ClockSpec == ClockInit /\ [][ClockNext]_vars

\* C27: every audio tick that leaves the audio clock valid leaves it at
\* audioStartPts + max(0, writtenBytes - queuedBytes) / 176400, and no step
\* that finds the clock valid and leaves it valid lowers it, whatever the
\* flush of the audio decoder and a tick beside it left in the fields.
AudioClockAdvances ==
    [][/\ \A puts \in 0..MaxAudioQueue :
             (processAudio(puts) /\ m_audioClockValid') =>
                 m_audioClock' = m_audioStartPts'
                     + PlayedMs(Max(0, m_audioWrittenBytes' - sdlQueued'))
       /\ (m_audioClockValid /\ m_audioClockValid') =>
             m_audioClock' >= m_audioClock]_vars

\* the flush is about to run beside a tick: the clock is valid and has
\* advanced past its start, and the device still holds bytes
FlushBesideAdvancedClock ==
    /\ adecPc = "flush"
    /\ TickBesideFlush
    /\ m_audioClock > m_audioStartPts
    /\ sdlQueued > 0

\* C28: a render tick in the video-ahead branch whose previous delay is not
\* above 100 ms computes, before the final clamp, the delay
\* min(2 * delay, delay + diff) of the base inter-frame delay.
AheadDelayCapped ==
    [][(OnRenderTimer /\ TickAhead /\ m_lastDelay <= FRAMEDUP_THRESHOLD) =>
          TickDelay = Min(2 * TickBaseDelay, TickBaseDelay + TickDiff)]_vars

(***************************************************************************)
(* DecideSpec: the scheduler of the render tick with the audio clock near  *)
(* the queued frames or more than NOSYNC_THRESHOLD away from them.         *)
(***************************************************************************)
DecideClocks == {40, 900, NOSYNC_THRESHOLD + 2000}

DecideInit == SchedStartAt(<<>>, DecideClocks)

DecideSpec == DecideInit /\ [][SchedNext]_vars

\* C29: a render tick that finds the audio clock invalid, or |diff| at or
\* above 10 s, or |diff| below the sync threshold clamp(delay, 10 ms, 100 ms),
\* schedules the next frame after the clamped base inter-frame delay and
\* resets the counter of consecutive fast renders to 0.
NoCorrectionOutsideSync ==
    [][(/\ OnRenderTimer
        /\ \/ ~m_audioClockValid
           \/ Abs(TickDiff) >= NOSYNC_THRESHOLD
           \/ Abs(TickDiff) < qBound(MIN_SYNC_THRESHOLD, TickBaseDelay,
                                     MAX_SYNC_THRESHOLD))
       => /\ m_lastDelay' = qBound(MIN_DELAY, TickBaseDelay, MAX_DELAY)
          /\ m_frameTimer' = Epoch + m_lastDelay'
          /\ m_consecutiveFastRender' = 0]_vars

\* a tick has just run with the valid audio clock 10 s or more away from the
\* frame it took
TickedOutOfSync ==
    /\ ctlPc = "present"
    /\ m_audioClockValid
    /\ Abs(m_lastFramePts - (m_audioClock + m_avSyncOffset)) >= NOSYNC_THRESHOLD
    /\ m_consecutiveFastRender = 0
    /\ m_frameTimer = Epoch + m_lastDelay

\* C30: a render tick does nothing while the stored due time is in the
\* future, the frame queue is empty, or the player is paused or not playing;
\* the GUI thread takes a frame off the queue only in a tick that finds the
\* player playing, a frame queued and the due time reached.
EarlyTickChangesNothing ==
    /\ []((\/ Epoch < m_frameTimer
           \/ m_frameQueue = <<>>
           \/ m_paused
           \/ ~m_playing) => ~ENABLED OnRenderTimer)
    /\ [][(ctlFrame = NoFrame /\ ctlFrame' # NoFrame) =>
             /\ OnRenderTimer
             /\ Epoch >= m_frameTimer
             /\ m_playing /\ ~m_paused]_vars

\* the render timer fires before the due time with a frame waiting
TickBeforeDueTime ==
    /\ ctlPc = "idle"
    /\ m_playing /\ ~m_paused
    /\ m_frameQueue # <<>>
    /\ Epoch < m_frameTimer

\* the fields of the clock state the render tick owns, as stop() leaves them
VideoClockReset ==
    /\ ~m_videoClockValid
    /\ m_videoStartPts = 0 /\ m_avSyncOffset = 0
    /\ m_frameTimer = 0 /\ m_lastFramePts = 0
    /\ m_lastDelay = DefaultDelay
    /\ m_consecutiveFastRender = 0

\* the fields of the clock state the audio tick owns, as stop() leaves them
AudioClockReset ==
    /\ ~m_audioClockValid
    /\ m_audioStartPts = 0
    /\ m_audioClock = 0

\* C31: stop, seek and loop-wrap each reset the whole clock state: stop()
\* and seek() leave every field at its initial value, and so does the
\* handling of the flush marker of a loop wrap, the video decoder's for the
\* fields of the render tick and the audio decoder's for those of the audio
\* tick, before a frame of the new timeline is scheduled.
ClockResetOnRestart ==
    [][/\ (StopBegin \/ \E seconds \in SeekInputs : Seek(seconds)) =>
             (VideoClockReset' /\ AudioClockReset')
       /\ VdecFlush => VideoClockReset'
       /\ AdecFlush => AudioClockReset']_vars

\* C32: a catch-up drop of the render tick removes at most 5 frames, each of
\* them followed by a frame whose pts is behind the reference clock, and
\* leaves the frame after them for the dequeue of the same tick, which takes
\* it; nothing else leaves the queue, the video decoder is not left waiting
\* for room in the queue, and the counter of consecutive fast renders is 0
\* afterwards whether or not a frame was dropped.
DropEventBounded ==
    [][(OnRenderTimer /\ TickCatchUp) =>
          /\ lastDropped' <= 5
          /\ lastDropped' < Len(m_frameQueue)
          /\ \A i \in 1..lastDropped' : m_frameQueue[i + 1].pts < TickRefClock
          /\ ctlFrame' = m_frameQueue[lastDropped' + 1]
          /\ m_frameQueue' = SubSeq(m_frameQueue, lastDropped' + 2,
                                    Len(m_frameQueue))
          /\ ~(Len(m_frameQueue') >= MAX_FRAME_QUEUE)
          /\ m_consecutiveFastRender' = 0]_vars

\* a catch-up drop on a full queue has made room for the video decoder,
\* which holds a frame to enqueue
DropWokeProducer ==
    /\ ctlPc = "present"
    /\ lastDropped >= MAX_FRAME_QUEUE - 1
    /\ vdecPc = "fput"
    /\ m_consecutiveFastRender = 0

(***************************************************************************)
(* FfSpec: an FFmpegPlayer with an open file is played, paused, sought and *)
(* stopped while its DecodeThread and its two timers run.                  *)
(***************************************************************************)
FfInit ==
    /\ D3dConstructed /\ GlConstructed
    /\ ff_loop \in BOOLEAN
    /\ \E kind \in FileKinds : FfStopped(kind, Duration)

FfNext ==
    \/ FfPlay("none") \/ FfPause \/ FfStop
    \/ \E seconds \in SeekInputs : FfSeek(seconds)
    \/ DtSeekBegin \/ DtSeekDone
    \/ DtReadPacket \/ DtReadEof \/ DtPutVideo \/ DtPutAudio
    \/ FfOnDecodingFinished
    \/ FfProcessVideo
    \/ \E accepted \in FfWrites : FfProcessAudio(accepted)

FfSpec == FfInit /\ [][FfNext]_vars

\* C33: FFmpegPlayer::processAudio loses no decoded audio byte: the bytes
\* of the buffers an audio tick finds in the queue are the bytes it hands to
\* the device followed by the bytes it leaves in the queue, also when the
\* device accepts fewer bytes than a buffer holds.
FfNoAudioByteLost ==
    [][\A accepted \in FfWrites :
          FfProcessAudio(accepted) =>
              HandsOverInOrder(dt_audioQueue, ff_deviceTook', dt_audioQueue')]_vars

(***************************************************************************)
(* RaceSpec: seek() calls while the demux thread of a D3D11Renderer, or    *)
(* the DecodeThread of an FFmpegPlayer, runs its loop.                     *)
(***************************************************************************)
RaceInit ==
    \/ Loaded("av", FALSE, 0) /\ SdlOpen
    \/ FfInit

RaceNext ==
    \/ \E seconds \in SeekInputs : m_formatCtx /\ Seek(seconds)
    \/ DemuxTop \/ DemuxSeekDone \/ DemuxReadPacket
    \/ DemuxPutVideo \/ DemuxPutAudio
    \/ VdecTake \/ VdecLock \/ VdecUnlock \/ VdecPut
    \/ AdecTake \/ AdecPut
    \/ ~m_formatCtx /\ FfPlay("none")
    \/ \E seconds \in SeekInputs : ~m_formatCtx /\ FfSeek(seconds)
    \/ DtSeekBegin \/ DtSeekDone
    \/ DtReadPacket \/ DtPutVideo \/ DtPutAudio
    \/ FfProcessVideo
    \/ \E accepted \in FfWrites : FfProcessAudio(accepted)

RaceSpec == RaceInit /\ [][RaceNext]_vars

\* C34: no seek request is lost: whenever the demux thread of the
\* D3D11Renderer, or the DecodeThread of the FFmpegPlayer, clears the seeking
\* flag, the container is at the position of the target of the last seek()
\* call.
NoSeekLost ==
    [][/\ (m_seeking /\ ~m_seeking') => avPos' = SeekPos(m_seekTarget')
       /\ (ff_seeking /\ ~ff_seeking') => dt_pos' = SeekPos(ff_seekTarget')]_vars

(***************************************************************************)
(* RestartSpec: a playback of the D3D11Renderer, or of the FFmpegPlayer,   *)
(* that the user stops and starts again.                                   *)
(***************************************************************************)
RestartInit ==
    \/ Loaded("v", FALSE, 0) /\ SdlOpen
    \/ FfInit

RestartNext ==
    \/ DemuxTop \/ DemuxReadPacket \/ DemuxLoopWrap \/ DemuxPutVideo
    \/ VdecTake \/ VdecFlush \/ VdecLock \/ VdecUnlock \/ VdecPut
    \/ VdecExit
    \/ OnRenderTimer \/ RenderLock \/ RenderDone \/ TimePasses
    \/ StopBegin \/ StopJoin
    \/ m_formatCtx /\ Play
    \/ ~m_formatCtx /\ FfPlay("none")
    \/ ~m_formatCtx /\ FfStop
    \/ DtReadPacket \/ DtReadEof \/ DtPutVideo \/ DtPutAudio
    \/ FfOnDecodingFinished
    \/ FfProcessVideo
    \/ \E accepted \in FfWrites : FfProcessAudio(accepted)

RestartSpec == RestartInit /\ [][RestartNext]_vars

\* a thread that starts reading the container of a file of the given kind
\* at position from decodes the first video frame of the stream first
FirstFrameIsFirstOfStream(kind, from) ==
    (\E i \in from..(StreamLen - 1) : IsVideo(kind, i)) =>
        ~\E j \in 0..(from - 1) : IsVideo(kind, j)

\* C35: play() after stop() restarts playback from the beginning: when
\* play() starts the threads of a stopped player, no frame of the earlier
\* playback is queued and the first video frame the demuxer will deliver is
\* the first of the stream, in the D3D11Renderer and in the FFmpegPlayer.
PlayAfterStopRestarts ==
    [][/\ (m_formatCtx /\ ~m_playing /\ m_playing') =>
             /\ m_frameQueue' = <<>> /\ m_videoPacketQueue' = <<>>
             /\ FirstFrameIsFirstOfStream(fileKind,
                    IF m_seeking' THEN SeekPos(m_seekTarget') ELSE avPos')
       /\ (ff_state = "StoppedState" /\ ff_state' = "PlayingState"
             /\ dt_formatCtx') =>
             /\ dt_videoQueue' = <<>>
             /\ FirstFrameIsFirstOfStream(ff_currentFile,
                    IF ff_seeking' THEN SeekPos(ff_seekTarget') ELSE dt_pos')]_vars

\* C36: in the OpenGLRenderer a play() on an open file that follows a
\* stop() (the decode thread was started before and running is false)
\* leaves running true and the decode thread inside its decode loop.
GlPlayAfterStopDecodes ==
    [][(GlPlay /\ gl_decodeThread /\ ~gl_running) =>
          /\ gl_playing' /\ ~gl_paused'
          /\ gl_running'
          /\ glPc' \in {"top", "read", "vput", "aput"}]_vars

\* C37: in the FFmpegPlayer with loop enabled and state Playing, handling
\* decodingFinished restarts decoding: afterwards the DecodeThread is running
\* its loop with a seek to time zero pending, the player is still playing
\* and no endOfFile was emitted.
FfLoopRestartsDecoding ==
    [][(FfOnDecodingFinished /\ ff_loop /\ ff_state = "PlayingState") =>
          /\ dt_running' /\ dtPc' = "run"
          /\ ff_seeking' /\ SeekPos(ff_seekTarget') = 0
          /\ ff_state' = "PlayingState"
          /\ ff_endOfFile' = ff_endOfFile]_vars

\* C38: every frame FFmpegPlayer::processVideo removes from the video queue
\* is either the frame it presents (the last one removed, emitted with
\* frameReady) or is stale (its pts more than 100 ms behind the target
\* time); a frame that is not yet due stays in the queue.
FfNoEarlyFrameLost ==
    [][FfProcessVideo =>
          LET removed == Len(dt_videoQueue) - Len(dt_videoQueue')
          IN  /\ dt_videoQueue' = SubSeq(dt_videoQueue, removed + 1,
                                         Len(dt_videoQueue))
              /\ \A i \in 1..removed :
                    \/ dt_videoQueue[i].pts < FfTargetTime - FfStaleMs
                    \/ i = removed /\ ff_frameReady' = dt_videoQueue[i].pts]_vars

(***************************************************************************)
(* LockSpec: the lock scopes of the D3D11Renderer.  Every thread walks     *)
(* through the positions of its code at which a QMutexLocker is entered or *)
(* left, a condition is waited on or the thread sleeps; which branch the   *)
(* code takes at a position is left open.  The mutexes a thread holds      *)
(* follow from its position, as the scopes of the lockers are lexical.     *)
(***************************************************************************)
Threads == {"demux", "vdec", "adec", "ctl"}

PcOf(t) ==
    CASE t = "demux" -> demuxPc
      [] t = "vdec"  -> vdecPc
      [] t = "adec"  -> adecPc
      [] t = "ctl"   -> ctlPc

\* demuxThread: the two flushes of a seek (863, 870), the two markers of a
\* loop wrap (897, 903) and the two enqueue scopes (917, 932); the mutex is
\* released inside QWaitCondition::wait ("vwait", "await")
DemuxHeld(pc) ==
    CASE pc \in {"flushv", "wrapv", "vput"} -> {"m_videoPacketMutex"}
      [] pc \in {"flusha", "wrapa", "aput"} -> {"m_audioPacketMutex"}
      [] OTHER -> {}

\* videoDecodeThread: the dequeue scope (976), the flush of the frame queue
\* (996), the two GPU sections (1043, 1096) and the enqueue scope (1110)
VdecHeld(pc) ==
    CASE pc = "deq" -> {"m_videoPacketMutex"}
      [] pc \in {"flush", "fput"} -> {"m_frameMutex"}
      [] pc = "gpu" -> {"m_d3dMutex"}
      [] OTHER -> {}

\* audioDecodeThread: the dequeue scope (1145), the flush of the audio
\* queue (1165) and the enqueue scope (1214), which is unlocked around
\* msleep ("asleep")
AdecHeld(pc) ==
    CASE pc = "deq" -> {"m_audioPacketMutex"}
      [] pc \in {"flush", "aput"} -> {"m_audioMutex"}
      [] OTHER -> {}

\* the control thread with the render scope kept around the present call
\* (variant of CtlHeld)
CtlHeldNested(pc) ==
    CASE pc \in {"tick", "present", "clearf"} -> {"m_frameMutex"}
      [] pc = "draw" -> {"m_frameMutex", "m_d3dMutex"}
      [] pc = "clearv" -> {"m_videoPacketMutex"}
      [] pc = "cleara" -> {"m_audioPacketMutex"}
      [] pc \in {"feed", "clearq"} -> {"m_audioMutex"}
      [] pc = "resize" -> {"m_d3dMutex"}
      [] OTHER -> {}

\* the control thread: onRenderTimer's scope (1253-1357), the render calls
\* after it (1392, 1441), processAudio (1575), resizeSwapChain (337) and the
\* four scopes in which stop() clears the queues (761, 765, 772, 779)
CtlHeld(pc) ==
    CASE pc \in {"tick", "clearf"} -> {"m_frameMutex"}
      [] pc = "clearv" -> {"m_videoPacketMutex"}
      [] pc = "cleara" -> {"m_audioPacketMutex"}
      [] pc \in {"feed", "clearq"} -> {"m_audioMutex"}
      [] pc \in {"draw", "resize"} -> {"m_d3dMutex"}
      [] OTHER -> {}

HeldAt(t, pc) ==
    CASE t = "demux" -> DemuxHeld(pc)
      [] t = "vdec"  -> VdecHeld(pc)
      [] t = "adec"  -> AdecHeld(pc)
      [] t = "ctl"   -> CtlHeld(pc)

\* the mutexes thread t holds now
Held(t) == HeldAt(t, PcOf(t))

\* the positions at which a thread waits on a condition, sleeps or waits
\* for the worker threads to end
WaitingAt(t) ==
    CASE t = "demux" -> {"vwait", "await"}
      [] t = "vdec"  -> {"idlewait", "fwait"}
      [] t = "adec"  -> {"idlewait", "asleep"}
      [] t = "ctl"   -> {"stopping"}

\* QMutexLocker's constructor returns: no thread holds the mutex
MutexFree(mutex) ==
    IF mutex = "m_d3dMutex" THEN D3dMutexFree
    ELSE \A t \in Threads : mutex \notin Held(t)

\* the moves of demuxThread from one position to the next, each with the
\* value of m_running it needs ("any": none)
DemuxMoves ==
    {<<"top", "done", "stopped">>,      \* 855 while (m_running)
     <<"top", "seek", "running">>,      \* 857 if (m_seeking): av_seek_frame
     <<"seek", "flushv", "any">>,       \* 863
     <<"flushv", "flushed", "any">>,    \* 868
     <<"flushed", "flusha", "any">>,    \* 870
     <<"flusha", "read", "any">>,       \* 875-881
     <<"top", "read", "running">>,      \* 885 av_read_frame
     <<"read", "wrapv", "any">>,        \* 897 end of file, looping
     <<"wrapv", "wrapped", "any">>,     \* 902
     <<"wrapped", "wrapa", "any">>,     \* 904
     <<"wrapa", "top", "any">>,         \* 907-908 continue
     <<"read", "done", "any">>,         \* 910-914 break
     <<"read", "vput", "any">>,         \* 917
     <<"vput", "vwait", "running">>,    \* 920-921
     <<"vwait", "vput", "any">>,        \* wait() returns with the mutex
     <<"vput", "top", "any">>,          \* 924-930
     <<"read", "aput", "any">>,         \* 932
     <<"aput", "await", "running">>,    \* 935-936
     <<"await", "aput", "any">>,
     <<"aput", "top", "any">>,          \* 939-945
     <<"read", "top", "any">>}          \* a packet of another stream

\* the moves of videoDecodeThread
VdecMoves ==
    {<<"take", "done", "stopped">>,     \* 972 while (m_running)
     <<"take", "deq", "running">>,      \* 976
     <<"deq", "idlewait", "running">>,  \* 978-979
     <<"idlewait", "deq", "any">>,
     <<"deq", "done", "stopped">>,      \* 982 break
     <<"deq", "take", "any">>,          \* 983 continue
     <<"deq", "got", "any">>,           \* 985-988
     <<"got", "flush", "any">>,         \* 991-996 a flush marker
     <<"flush", "take", "any">>,        \* 998-1004 continue
     <<"got", "copy", "any">>,          \* avcodec_send_packet
     <<"copy", "take", "any">>,         \* no further frame
     <<"copy", "gpu", "any">>,          \* 1043, 1096
     <<"gpu", "made", "any">>,          \* 1050, 1098
     <<"made", "copy", "any">>,         \* 1109 no texture
     <<"made", "fput", "any">>,         \* 1110
     <<"fput", "fwait", "running">>,    \* 1113-1114
     <<"fwait", "fput", "any">>,
     <<"fput", "copy", "any">>}         \* 1117-1120

\* the moves of audioDecodeThread
AdecMoves ==
    {<<"take", "done", "stopped">>,     \* 1141 while (m_running)
     <<"take", "deq", "running">>,      \* 1145
     <<"deq", "idlewait", "running">>,  \* 1147-1148
     <<"idlewait", "deq", "any">>,
     <<"deq", "done", "stopped">>,      \* 1151 break
     <<"deq", "take", "any">>,          \* 1152 continue
     <<"deq", "got", "any">>,           \* 1154-1157
     <<"got", "flush", "any">>,         \* 1160-1165 a flush marker
     <<"flush", "take", "any">>,        \* 1167-1174 continue
     <<"got", "decode", "any">>,        \* avcodec_send_packet
     <<"decode", "take", "any">>,       \* no further frame
     <<"decode", "aput", "any">>,       \* 1214
     <<"aput", "asleep", "running">>,   \* 1217-1220 unlock, msleep
     <<"asleep", "aput", "any">>,       \* 1221 relock
     <<"aput", "decode", "any">>}       \* 1224-1227

\* the moves of the control thread inside the two timer handlers, the
\* resize handler and the end of stop()
CtlMoves ==
    {<<"idle", "render", "playing">>,   \* 1239-1252 onRenderTimer
     <<"render", "tick", "any">>,       \* 1254
     <<"tick", "idle", "any">>,         \* 1256 the queue is empty
     <<"tick", "present", "any">>,      \* 1357 the scope ends
     <<"present", "draw", "any">>,      \* 1392, 1441
     <<"draw", "idle", "any">>,         \* 1384
     <<"idle", "audio", "playing">>,    \* 1570-1573 processAudio
     <<"audio", "feed", "any">>,        \* 1575
     <<"feed", "idle", "any">>,
     <<"idle", "resize", "any">>,       \* 337 resizeSwapChain
     <<"resize", "idle", "any">>,
     <<"clearf", "clearv", "any">>,     \* 763-765
     <<"clearv", "cleara", "any">>,     \* 770-772
     <<"cleara", "clearq", "any">>,     \* 777-779
     <<"clearq", "idle", "any">>}       \* 781-785

MovesOf(t) ==
    CASE t = "demux" -> DemuxMoves
      [] t = "vdec"  -> VdecMoves
      [] t = "adec"  -> AdecMoves
      [] t = "ctl"   -> CtlMoves

MoveAllowed(when) ==
    CASE when = "running" -> m_running
      [] when = "stopped" -> ~m_running
      [] when = "playing" -> m_playing /\ ~m_paused
      [] OTHER -> TRUE

\* the variables the lock scopes leave alone
lockIdleVars ==
    <<notifyVars, peerVars, fileVars, avPos, m_paused, m_loop, m_volume,
      m_currentPts, m_seeking, m_seekTarget, avVars, audioClockVars,
      timerVars, packetQueues, m_frameQueue, m_audioQueue, demuxPkt,
      vdecItem, adecItem, ctlFrame, events, deviceVars, toldVars>>

\* thread t takes one move: a mutex it enters the scope of is free, the
\* mutexes of the scopes it leaves are released
LockStep(t) ==
    \E move \in MovesOf(t) :
       /\ PcOf(t) = move[1]
       /\ MoveAllowed(move[3])
       /\ \A mutex \in HeldAt(t, move[2]) \ Held(t) : MutexFree(mutex)
       /\ demuxPc' = IF t = "demux" THEN move[2] ELSE demuxPc
       /\ vdecPc' = IF t = "vdec" THEN move[2] ELSE vdecPc
       /\ adecPc' = IF t = "adec" THEN move[2] ELSE adecPc
       /\ ctlPc' = IF t = "ctl" THEN move[2] ELSE ctlPc
       /\ m_d3dMutex' = IF "m_d3dMutex" \in HeldAt(t, move[2]) THEN t
                        ELSE IF m_d3dMutex = t THEN "free" ELSE m_d3dMutex
       /\ UNCHANGED <<lockIdleVars, m_running, m_playing>>

\* play() of a stopped player starts the three threads
LockPlay ==
    /\ ctlPc = "idle"
    /\ ~m_playing
    /\ m_running' = TRUE
    /\ m_playing' = TRUE
    /\ demuxPc' = "top" /\ vdecPc' = "take" /\ adecPc' = "take"
    /\ UNCHANGED <<lockIdleVars, ctlPc, m_d3dMutex>>

\* stop() up to the join: m_running is cleared, the conditions are woken
LockStop ==
    /\ ctlPc = "idle"
    /\ m_playing' = FALSE
    /\ m_running' = FALSE
    /\ ctlPc' = "stopping"
    /\ UNCHANGED <<lockIdleVars, demuxPc, vdecPc, adecPc, m_d3dMutex>>

\* the three threads have ended: stop() enters the first of its scopes
LockJoin ==
    /\ ctlPc = "stopping"
    /\ WorkersStopped
    /\ demuxPc' = "off" /\ vdecPc' = "off" /\ adecPc' = "off"
    /\ ctlPc' = "clearf"
    /\ UNCHANGED <<lockIdleVars, m_running, m_playing, m_d3dMutex>>

LockNext ==
    \/ \E t \in Threads : LockStep(t)
    \/ LockPlay \/ LockStop \/ LockJoin

LockInit == Loaded("av", FALSE, 0) /\ SdlOpen

LockSpec ==
    /\ LockInit
    /\ [][LockNext]_vars
    /\ WF_vars(LockStep("demux"))
    /\ WF_vars(LockStep("vdec"))
    /\ WF_vars(LockStep("adec"))
    /\ SF_vars(LockStep("ctl"))

\* C39: no thread of the D3D11Renderer ever holds two of the five mutexes,
\* no thread holds a mutex while it waits on a condition, sleeps or joins,
\* a thread that holds a mutex can always go on and release it (so no
\* thread waits for a mutex whose holder is blocked), and a tick of the
\* control thread that needs a mutex eventually acquires it.
OneLockAtATime ==
    /\ [](\A t \in Threads :
            /\ Cardinality(Held(t)) <= 1
            /\ PcOf(t) \in WaitingAt(t) => Held(t) = {}
            /\ Held(t) # {} => ENABLED LockStep(t))
    /\ (ctlPc = "render") ~> (ctlPc = "tick")
    /\ (ctlPc = "present") ~> (ctlPc = "draw")
    /\ (ctlPc = "audio") ~> (ctlPc = "feed")

\* the render tick wants the frame mutex while the video decoder holds it,
\* the demux thread waits on the condition of the full video packet queue
\* and the audio decoder sleeps
TickWaitsForFrameMutex ==
    /\ ctlPc = "render" /\ vdecPc = "fput"
    /\ demuxPc = "vwait" /\ adecPc = "asleep"

(***************************************************************************)
(* ThreadSpec: play(), pause(), stop() and openFile() called in any order  *)
(* on a playback in progress (togglePause() is pause() or play(),          *)
(* loadFile() is stop(), openFile(), play()), with the three threads and   *)
(* the render tick running.                                                *)
(***************************************************************************)
ThreadNext ==
    \/ DemuxTop \/ DemuxReadPacket \/ DemuxLoopWrap
    \/ DemuxPutVideo \/ DemuxPutAudio
    \/ VdecExit \/ VdecTake \/ VdecFlush \/ VdecLock \/ VdecUnlock \/ VdecPut
    \/ AdecExit \/ AdecTake \/ AdecFlush \/ AdecPut
    \/ Play \/ Pause \/ StopBegin \/ StopJoin
    \/ CloseBegin \/ OpenFile("none", "av", FALSE)
    \/ BoundedRenderTimer \/ RenderLock \/ RenderDone \/ TimePasses

ThreadInit == Loaded("av", FALSE, 0) /\ SdlOpen

ThreadSpec == ThreadInit /\ [][ThreadNext]_vars

\* C40: at most one demux, one video decode and one audio decode thread of
\* the D3D11Renderer exist at a time: a thread is started by play() only,
\* play() on a player that is not playing starts threads when none exists,
\* play() on a paused player starts none and leaves the running threads as
\* they are, and play() on a player that is playing and not paused does
\* nothing.
OneThreadPerStage ==
    /\ [][/\ (\/ demuxPc \in {"off", "done"} /\ demuxPc' \notin {"off", "done"}
              \/ vdecPc \in {"off", "done"} /\ vdecPc' \notin {"off", "done"}
              \/ adecPc \in {"off", "done"} /\ adecPc' \notin {"off", "done"})
                => Play /\ ~m_playing
          /\ (Play /\ ~m_playing) =>
                demuxPc = "off" /\ vdecPc = "off" /\ adecPc = "off"
          /\ (Play /\ m_playing) =>
                UNCHANGED <<m_running, demuxVars, vdecVars, adecVars,
                            packetQueues, m_frameQueue, m_audioQueue>>]_vars
    /\ []((m_playing /\ ~m_paused) => ~ENABLED Play)

\* play() has resumed a paused playback (the frame timing is reset, the
\* position of the last frame presented is kept) and the three threads
\* started by the first play() are inside their loops
ResumedWithThreadsAlive ==
    /\ m_playing /\ ~m_paused /\ m_running
    /\ m_currentPts > 0 /\ m_lastFramePts = 0 /\ ~m_videoClockValid
    /\ seekArg["D3D11Renderer"] = 0
    /\ demuxPc \notin {"off", "done"}
    /\ vdecPc \notin {"off", "done"}
    /\ adecPc \notin {"off", "done"}
=============================================================================
